---- MODULE Spec2Model ----
(***************************************************************************)
(* terraform-provider-sops: envelope encryption of a JSON document with a  *)
(* Vault Transit key (internal/sopsencrypt) and the Terraform resources    *)
(* that store the resulting artifact (internal/provider).                  *)
(*                                                                         *)
(* Text is modelled as sequences of one-character strings, JSON text as a  *)
(* sequence of lexical tokens, documents as ordered trees.                 *)
(***************************************************************************)
EXTENDS Integers, Sequences, FiniteSets, TLC

(* ------------------------------ bounds -------------------------------- *)
MaxCalls == 2
(* Largest number of Read operations counted on one resource in state. *)
MaxReads == 2
(* The clock of a behaviour reads 0..MaxClock. *)
MaxClock == 1

Calls == 1..MaxCalls

(* ------------------------------- text --------------------------------- *)
Str0 == << >>
kPw == <<"p", "w">>
kHost == <<"h">>
kA == <<"a">>
kB == <<"b">>
kDb == <<"d", "b">>
kApw == <<"a", "p", "w">>
kSops == <<"s", "o", "p", "s">>

HasSuffix(s, suffix) ==
  /\ Len(suffix) <= Len(s)
  /\ SubSeq(s, Len(s) - Len(suffix) + 1, Len(s)) = suffix

HasPrefixAt(s, i, lit) ==
  /\ i + Len(lit) - 1 <= Len(s)
  /\ SubSeq(s, i, i + Len(lit) - 1) = lit

(* ------------------------------ tokens -------------------------------- *)
Tok(t, v) == [t |-> t, v |-> v]
LB == Tok("lbrace", Str0)
RB == Tok("rbrace", Str0)
LK == Tok("lbrack", Str0)
RK == Tok("rbrack", Str0)
CO == Tok("colon", Str0)
CM == Tok("comma", Str0)
TS(v) == Tok("str", v)
TN(v) == Tok("num", v)
TTrue == Tok("bool", <<"t">>)
TNull == Tok("null", Str0)

ScalarKinds == {"str", "num", "bool", "null", "enc"}

(* ------------------------------- trees -------------------------------- *)
Node(kind, v, kids) == [kind |-> kind, v |-> v, kids |-> kids]
Item(key, val) == [key |-> key, val |-> val]
NoNode == Node("none", Str0, << >>)

(* ------------------- the grammar of a JSON document ------------------- *)
(* ParseValue reads one JSON value of a text, as json.Unmarshal does: it  *)
(* is what the properties read an emitted document back with, and what    *)
(* they call a JSON document.                                             *)
PR(ok, node, next) == [ok |-> ok, node |-> node, next |-> next]
PFail == PR(FALSE, NoNode, 0)

(* The element of a one-element set: The({F(x) : x \in {e}}) is F(e), with *)
(* e evaluated once.                                                       *)
The(S) == CHOOSE y \in S : TRUE

RECURSIVE ParseValue(_, _)
RECURSIVE ParseMembers(_, _, _)
RECURSIVE ParseElems(_, _, _)

ParseValue(ts, i) ==
  IF i > Len(ts) THEN PFail
  ELSE IF ts[i].t \in {"str", "num", "bool", "null"}
       THEN PR(TRUE, Node(ts[i].t, ts[i].v, << >>), i + 1)
  ELSE IF ts[i].t = "lbrace"
       THEN IF i + 1 <= Len(ts) /\ ts[i + 1].t = "rbrace"
            THEN PR(TRUE, Node("map", Str0, << >>), i + 2)
            ELSE ParseMembers(ts, i + 1, << >>)
  ELSE IF ts[i].t = "lbrack"
       THEN IF i + 1 <= Len(ts) /\ ts[i + 1].t = "rbrack"
            THEN PR(TRUE, Node("seq", Str0, << >>), i + 2)
            ELSE ParseElems(ts, i + 1, << >>)
  ELSE PFail

(* After the value r of a member: a comma and more members, or the closing brace. *)
ParseMembersTail(ts, i, acc, r) ==
  IF ~r.ok \/ r.next > Len(ts) THEN PFail
  ELSE IF ts[r.next].t = "comma"
       THEN ParseMembers(ts, r.next + 1, Append(acc, Item(ts[i].v, r.node)))
  ELSE IF ts[r.next].t = "rbrace"
       THEN PR(TRUE, Node("map", Str0, Append(acc, Item(ts[i].v, r.node))), r.next + 1)
  ELSE PFail

ParseMembers(ts, i, acc) ==
  IF i + 1 > Len(ts) \/ ts[i].t # "str" \/ ts[i + 1].t # "colon" THEN PFail
  ELSE The({ParseMembersTail(ts, i, acc, r) : r \in {ParseValue(ts, i + 2)}})

(* After the element r of an array: a comma and more elements, or the closing bracket. *)
ParseElemsTail(ts, acc, r) ==
  IF ~r.ok \/ r.next > Len(ts) THEN PFail
  ELSE IF ts[r.next].t = "comma"
       THEN ParseElems(ts, r.next + 1, Append(acc, Item(Str0, r.node)))
  ELSE IF ts[r.next].t = "rbrack"
       THEN PR(TRUE, Node("seq", Str0, Append(acc, Item(Str0, r.node))), r.next + 1)
  ELSE PFail

ParseElems(ts, i, acc) ==
  The({ParseElemsTail(ts, acc, r) : r \in {ParseValue(ts, i)}})

(* ------------------- encoding/json: Decoder.Token --------------------- *)
(* The decoder: its token state and the stack of the states of the       *)
(* arrays and objects it is in.                                          *)
NewDecoder == [state |-> "top", stack |-> << >>]
tokenValueAllowed(d) == d.state \in {"top", "arrayStart", "arrayValue", "objectValue"}
tokenValueEnd(state) ==
  IF state \in {"arrayStart", "arrayValue"} THEN "arrayComma"
  ELSE IF state = "objectValue" THEN "objectComma"
  ELSE state

(* What Token returns: a token, io.EOF or a syntax error. An error and   *)
(* io.EOF leave the decoder where it is.                                 *)
TokenResult(kind, tok, next, d) == [kind |-> kind, tok |-> tok, next |-> next, dec |-> d]
OpenDelim(d, state) == [state |-> state, stack |-> Append(d.stack, d.state)]
CloseDelim(d) ==
  [state |-> tokenValueEnd(d.stack[Len(d.stack)]), stack |-> SubSeq(d.stack, 1, Len(d.stack) - 1)]

(* Decoder.Token at place i: colons and commas are checked and skipped,  *)
(* every other token is returned when the state allows it; the end of     *)
(* the input is io.EOF in every state.                                    *)
RECURSIVE Token(_, _, _)
Token(ts, i, d) ==
  IF i > Len(ts) THEN TokenResult("eof", TNull, i, d)
  ELSE IF ts[i].t = "lbrack"
  THEN IF tokenValueAllowed(d) THEN TokenResult("tok", ts[i], i + 1, OpenDelim(d, "arrayStart"))
       ELSE TokenResult("err", TNull, i, d)
  ELSE IF ts[i].t = "rbrack"
  THEN IF d.state \in {"arrayStart", "arrayComma"}
       THEN TokenResult("tok", ts[i], i + 1, CloseDelim(d))
       ELSE TokenResult("err", TNull, i, d)
  ELSE IF ts[i].t = "lbrace"
  THEN IF tokenValueAllowed(d) THEN TokenResult("tok", ts[i], i + 1, OpenDelim(d, "objectStart"))
       ELSE TokenResult("err", TNull, i, d)
  ELSE IF ts[i].t = "rbrace"
  THEN IF d.state \in {"objectStart", "objectComma"}
       THEN TokenResult("tok", ts[i], i + 1, CloseDelim(d))
       ELSE TokenResult("err", TNull, i, d)
  ELSE IF ts[i].t = "colon"
  THEN IF d.state = "objectColon" THEN Token(ts, i + 1, [d EXCEPT !.state = "objectValue"])
       ELSE TokenResult("err", TNull, i, d)
  ELSE IF ts[i].t = "comma"
  THEN IF d.state = "arrayComma" THEN Token(ts, i + 1, [d EXCEPT !.state = "arrayValue"])
       ELSE IF d.state = "objectComma" THEN Token(ts, i + 1, [d EXCEPT !.state = "objectKey"])
       ELSE TokenResult("err", TNull, i, d)
  ELSE IF ts[i].t = "str" /\ d.state \in {"objectStart", "objectKey"}
  THEN TokenResult("tok", ts[i], i + 1, [d EXCEPT !.state = "objectColon"])
  ELSE IF ts[i].t \in {"str", "num", "bool", "null"} /\ tokenValueAllowed(d)
  THEN TokenResult("tok", ts[i], i + 1, [d EXCEPT !.state = tokenValueEnd(d.state)])
  ELSE TokenResult("err", TNull, i, d)

(* ----------------- sopsjson.Store.LoadPlainFile ----------------------- *)
(* The store reads the document token by token. res is "ok" or "item"    *)
(* (a value was read), "end" (errEndOfObject), "eof" (io.EOF) or "err"   *)
(* (any other error).                                                     *)
Loaded(res, node, next, d) == [res |-> res, node |-> node, next |-> next, dec |-> d]

RECURSIVE sliceFromJSONDecoder(_, _, _, _)
RECURSIVE treeItemFromJSONDecoder(_, _, _)
RECURSIVE treeBranchFromJSONDecoder(_, _, _, _)

(* The elements up to the closing bracket; an object is read as a branch, *)
(* every other token is appended as it is; any error, io.EOF included,    *)
(* is returned.                                                           *)
sliceFromJSONDecoder(ts, i, d, slice) ==
  The({IF t.kind # "tok" THEN Loaded(t.kind, NoNode, t.next, t.dec)
       ELSE IF t.tok.t = "rbrack" THEN Loaded("ok", Node("seq", Str0, slice), t.next, t.dec)
       ELSE IF t.tok.t = "lbrace"
       THEN The({IF b.res # "ok" THEN b
                 ELSE sliceFromJSONDecoder(ts, b.next, b.dec, Append(slice, Item(Str0, b.node))) :
                   b \in {treeBranchFromJSONDecoder(ts, t.next, t.dec, << >>)}})
       ELSE sliceFromJSONDecoder(ts, t.next, t.dec,
                                 Append(slice, Item(Str0, Node(t.tok.t, t.tok.v, << >>)))) :
         t \in {Token(ts, i, d)}})

(* One member: the key token (io.EOF is let through, and then the key is *)
(* not a string: an error), then the value token (io.EOF is returned as   *)
(* it is). A value token that is a closing delimiter leaves the value     *)
(* nil.                                                                   *)
treeItemFromJSONDecoder(ts, i, d) ==
  The({IF k.kind = "tok" /\ k.tok.t = "str"
       THEN The({IF v.kind # "tok" THEN Loaded(v.kind, NoNode, v.next, v.dec)
                 ELSE IF v.tok.t = "lbrack"
                 THEN The({IF sl.res # "ok" THEN sl
                           ELSE Loaded("item", Item(k.tok.v, sl.node), sl.next, sl.dec) :
                             sl \in {sliceFromJSONDecoder(ts, v.next, v.dec, << >>)}})
                 ELSE IF v.tok.t = "lbrace"
                 THEN The({IF b.res # "ok" THEN b
                           ELSE Loaded("item", Item(k.tok.v, b.node), b.next, b.dec) :
                             b \in {treeBranchFromJSONDecoder(ts, v.next, v.dec, << >>)}})
                 ELSE IF v.tok.t \in {"rbrack", "rbrace"}
                 THEN Loaded("item", Item(k.tok.v, Node("null", Str0, << >>)), v.next, v.dec)
                 ELSE Loaded("item", Item(k.tok.v, Node(v.tok.t, v.tok.v, << >>)), v.next, v.dec) :
                   v \in {Token(ts, k.next, k.dec)}})
       ELSE IF k.kind = "tok" /\ k.tok.t = "rbrace" THEN Loaded("end", NoNode, k.next, k.dec)
       ELSE Loaded("err", NoNode, k.next, k.dec) :
         k \in {Token(ts, i, d)}})

(* The members up to the closing brace; io.EOF ends the branch like the  *)
(* closing brace does, with no error.                                     *)
treeBranchFromJSONDecoder(ts, i, d, tree) ==
  The({IF it.res \in {"end", "eof"} THEN Loaded("ok", Node("map", Str0, tree), it.next, it.dec)
       ELSE IF it.res = "err" THEN Loaded("err", NoNode, it.next, it.dec)
       ELSE treeBranchFromJSONDecoder(ts, it.next, it.dec, Append(tree, it.node)) :
         it \in {treeItemFromJSONDecoder(ts, i, d)}})

(* treeBranchFromJSON: the first token is read and dropped, whatever it  *)
(* is, and the rest is read as the members of one branch; what follows    *)
(* the closing brace is not read.                                         *)
LoadPlainFile(jsonContent) ==
  The({The({[ok |-> b.res = "ok", branch |-> IF b.res = "ok" THEN b.node ELSE NoNode] :
              b \in {treeBranchFromJSONDecoder(jsonContent, first.next, first.dec, << >>)}}) :
         first \in {Token(jsonContent, 1, NewDecoder)}})

(* --------------------------- regexp.Match ----------------------------- *)
(* The regular expressions of the model are those of the form             *)
(* [^] body [$] where body is a literal or a group (lit|lit|...).         *)
RECURSIVE SplitBar(_, _, _)
SplitBar(s, i, cur) ==
  IF i > Len(s) THEN <<cur>>
  ELSE IF s[i] = "|" THEN <<cur>> \o SplitBar(s, i + 1, Str0)
  ELSE SplitBar(s, i + 1, Append(cur, s[i]))

RegexAnchoredStart(re) == Len(re) > 0 /\ re[1] = "^"
RegexAnchoredEnd(re) == Len(re) > 0 /\ re[Len(re)] = "$"
RegexBody(re) ==
  SubSeq(re, IF RegexAnchoredStart(re) THEN 2 ELSE 1,
             IF RegexAnchoredEnd(re) THEN Len(re) - 1 ELSE Len(re))
RegexAlts(re) ==
  LET b == RegexBody(re) IN
  IF Len(b) >= 2 /\ b[1] = "(" /\ b[Len(b)] = ")"
  THEN SplitBar(SubSeq(b, 2, Len(b) - 1), 1, Str0)
  ELSE <<b>>

RegexpMatch(re, name) ==
  \E a \in 1..Len(RegexAlts(re)) : \E i \in 1..(Len(name) + 1) :
     LET lit == RegexAlts(re)[a] IN
     /\ HasPrefixAt(name, i, lit)
     /\ RegexAnchoredStart(re) => i = 1
     /\ RegexAnchoredEnd(re) => i + Len(lit) - 1 = Len(name)

(* ------------------------- EncryptOpts / scope ------------------------ *)
Opts(us, es, ur, er, pretty) ==
  [UnencryptedSuffix |-> us, EncryptedSuffix |-> es,
   UnencryptedRegex |-> ur, EncryptedRegex |-> er, PrettyJSON |-> pretty]

ScopeFieldsSet(opts) ==
  (IF opts.UnencryptedSuffix # Str0 THEN 1 ELSE 0)
  + (IF opts.EncryptedSuffix # Str0 THEN 1 ELSE 0)
  + (IF opts.UnencryptedRegex # Str0 THEN 1 ELSE 0)
  + (IF opts.EncryptedRegex # Str0 THEN 1 ELSE 0)

(* Variant: the rule looks at the leaf's own key only. *)
ShouldEncrypt_LastKeyOnly(path, opts) ==
  LET last == IF Len(path) = 0 THEN {} ELSE {path[Len(path)]}
      anySuffix(s) == \E n \in last : HasSuffix(n, s)
      anyMatch(re) == \E n \in last : RegexpMatch(re, n)
      e1 == IF opts.UnencryptedSuffix # Str0 /\ anySuffix(opts.UnencryptedSuffix)
            THEN FALSE ELSE TRUE
      e2 == IF opts.EncryptedSuffix # Str0
            THEN anySuffix(opts.EncryptedSuffix) ELSE e1
      e3 == IF opts.UnencryptedRegex # Str0 /\ anyMatch(opts.UnencryptedRegex)
            THEN FALSE ELSE e2
      e4 == IF opts.EncryptedRegex # Str0
            THEN anyMatch(opts.EncryptedRegex) ELSE e3
  IN e4

(* sops.Tree.Encrypt: the decision taken for a leaf from the mapping keys  *)
(* on its path (sequence elements add no path component).                 *)
ShouldEncrypt(path, opts) ==
  LET anySuffix(s) == \E i \in 1..Len(path) : HasSuffix(path[i], s)
      anyMatch(re) == \E i \in 1..Len(path) : RegexpMatch(re, path[i])
      e0 == TRUE
      e1 == IF opts.UnencryptedSuffix # Str0 /\ anySuffix(opts.UnencryptedSuffix)
            THEN FALSE ELSE e0
      e2 == IF opts.EncryptedSuffix # Str0
            THEN anySuffix(opts.EncryptedSuffix) ELSE e1
      e3 == IF opts.UnencryptedRegex # Str0 /\ anyMatch(opts.UnencryptedRegex)
            THEN FALSE ELSE e2
      e4 == IF opts.EncryptedRegex # Str0
            THEN anyMatch(opts.EncryptedRegex) ELSE e3
  IN e4

(* ------------------------------ crypto -------------------------------- *)
(* Variant: the entropy source repeats itself. *)
RandRead_Constant(r) == [val |-> 1, next |-> r + 1]

(* crypto/rand: every read of the entropy source yields a value that no   *)
(* earlier read has yielded; r counts the reads made so far.              *)
RandRead(r) == [val |-> r + 1, next |-> r + 1]

(* make([]byte, 32) *)
DataKeyLen == 32

(* Variant: one data key for the whole process. *)
generateDataKey_Shared(r) == [val |-> 1, next |-> r + 1, len |-> DataKeyLen]

(* generateDataKey: 32 bytes read from the entropy source in one read. *)
generateDataKey(r) ==
  The({[val |-> k.val, next |-> k.next, len |-> DataKeyLen] : k \in {RandRead(r)}})

(* Variant: only strings are encrypted. *)
CipherEncrypt_StringsOnly(node, key, r) ==
  IF node.kind # "str" \/ node.v = Str0 THEN [node |-> node, rnd |-> r]
  ELSE [node |-> Node("enc", <<ToString(key), ToString(r + 1), node.kind>> \o node.v, << >>),
        rnd |-> r + 1]

(* aes.Cipher.Encrypt: the empty string is returned as it is, every other *)
(* value becomes ENC[AES256_GCM,data,iv,tag,type] under a fresh nonce.    *)
CipherEncrypt(node, key, r) ==
  IF node.kind = "str" /\ node.v = Str0 THEN [node |-> node, rnd |-> r]
  ELSE The({[node |-> Node("enc", <<ToString(key), ToString(iv.val), node.kind>> \o node.v, << >>),
             rnd |-> iv.next] : iv \in {RandRead(r)}})

EncKeyOf(node) == node.v[1]
EncNonceOf(node) == node.v[2]
EncTypeOf(node) == node.v[3]
EncPlainOf(node) == SubSeq(node.v, 4, Len(node.v))

RECURSIVE WalkValue(_, _, _, _, _)
RECURSIVE WalkItems(_, _, _, _, _, _, _, _)
RECURSIVE WalkItems_IndexInPath(_, _, _, _, _, _, _, _)

(* A json.Delim the loader has left in a slice. *)
IsDelim(node) == node.kind \in {"lbrack", "rbrack", "lbrace", "rbrace"}

(* walkValue: a branch and a slice are walked, nil is returned as it is, *)
(* a scalar goes to the cipher when the scope selects it; a value of any  *)
(* other type is an error ("Cannot walk value, unknown type"), which      *)
(* ends the walk where it is.                                             *)
WalkValue(node, path, opts, key, r) ==
  IF node.kind \in {"map", "seq"}
  THEN The({[node |-> Node(node.kind, Str0, w.kids), rnd |-> w.rnd, err |-> w.err] :
              w \in {WalkItems(node.kids, 1, node.kind = "map", path, opts, key, r, << >>)}})
  ELSE IF IsDelim(node) THEN [node |-> node, rnd |-> r, err |-> TRUE]
  ELSE IF node.kind = "null" THEN [node |-> node, rnd |-> r, err |-> FALSE]
  ELSE IF ShouldEncrypt(path, opts)
  THEN The({[node |-> e.node, rnd |-> e.rnd, err |-> FALSE] : e \in {CipherEncrypt(node, key, r)}})
  ELSE [node |-> node, rnd |-> r, err |-> FALSE]

(* Variant: the index of a sequence element is a component of its path. *)
WalkItems_IndexInPath(kids, i, isMap, path, opts, key, r, acc) ==
  IF i > Len(kids) THEN [kids |-> acc, rnd |-> r, err |-> FALSE]
  ELSE The({IF w.err THEN [kids |-> acc, rnd |-> w.rnd, err |-> TRUE]
            ELSE WalkItems_IndexInPath(kids, i + 1, isMap, path, opts, key, w.rnd,
                                       Append(acc, Item(kids[i].key, w.node))) :
              w \in {WalkValue(kids[i].val,
                               Append(path, IF isMap THEN kids[i].key ELSE <<ToString(i)>>),
                               opts, key, r)}})

WalkItems(kids, i, isMap, path, opts, key, r, acc) ==
  IF i > Len(kids) THEN [kids |-> acc, rnd |-> r, err |-> FALSE]
  ELSE The({IF w.err THEN [kids |-> acc, rnd |-> w.rnd, err |-> TRUE]
            ELSE WalkItems(kids, i + 1, isMap, path, opts, key, w.rnd,
                           Append(acc, Item(kids[i].key, w.node))) :
              w \in {WalkValue(kids[i].val,
                               IF isMap THEN Append(path, kids[i].key) ELSE path,
                               opts, key, r)}})

(* The zero time.Time of a Metadata whose LastModified is not set. *)
ZeroTime == 0 - 1

(* The MAC of the tree w, encrypted like a leaf. *)
EncryptMac(w, key) ==
  The({[branch |-> w.node, mac |-> mac.node, rnd |-> mac.rnd] :
         mac \in {CipherEncrypt(Node("str", <<"mac">>, << >>), key, w.rnd)}})

(* Variant: the tree is encrypted under a second key, not the wrapped one. *)
EncryptTree_SecondKey(branch, opts, key, r, t) ==
  The({IF w.err
       THEN [branch |-> w.node, mac |-> NoNode, rnd |-> w.rnd, lastModified |-> ZeroTime,
             err |-> TRUE]
       ELSE The({[branch |-> m.branch, mac |-> m.mac, rnd |-> m.rnd, lastModified |-> t,
                  err |-> FALSE] : m \in {EncryptMac(w, key + 100)}}) :
         w \in {WalkValue(branch, << >>, opts, key + 100, r)}})

(* common.EncryptTree: encrypts the selected leaves, sets LastModified to  *)
(* the time t its clock read gives, then encrypts the MAC; an error of the *)
(* walk is returned before the clock is read.                              *)
EncryptTree(branch, opts, key, r, t) ==
  The({IF w.err
       THEN [branch |-> w.node, mac |-> NoNode, rnd |-> w.rnd, lastModified |-> ZeroTime,
             err |-> TRUE]
       ELSE The({[branch |-> m.branch, mac |-> m.mac, rnd |-> m.rnd, lastModified |-> t,
                  err |-> FALSE] : m \in {EncryptMac(w, key)}}) :
         w \in {WalkValue(branch, << >>, opts, key, r)}})

(* ----------------------------- metadata ------------------------------- *)
SopsVersion == <<"3">>

(* hcvault.MasterKey and sops.Metadata as built by encryptDocument. *)
MasterKey_Swapped(address, transitPath, keyName, encryptedKey, creationDate) ==
  [VaultAddress |-> address, EnginePath |-> keyName,
   KeyName |-> transitPath, EncryptedKey |-> encryptedKey, CreationDate |-> creationDate]

MasterKey(address, transitPath, keyName, encryptedKey, creationDate) ==
  [VaultAddress |-> address, EnginePath |-> transitPath,
   KeyName |-> keyName, EncryptedKey |-> encryptedKey, CreationDate |-> creationDate]


Metadata(masterKey, opts) ==
  [KeyGroups |-> <<masterKey>>, Version |-> SopsVersion, LastModified |-> ZeroTime,
   UnencryptedSuffix |-> opts.UnencryptedSuffix,
   EncryptedSuffix |-> opts.EncryptedSuffix,
   UnencryptedRegex |-> opts.UnencryptedRegex,
   EncryptedRegex |-> opts.EncryptedRegex]

StrNode(v) == Node("str", v, << >>)

(* time.Time.Format(time.RFC3339) of the clock reading t. *)
FormatTime(t) == <<"rfc3339:", ToString(t)>>

OmitEmpty(key, v) == IF v = Str0 THEN << >> ELSE <<Item(<<key>>, StrNode(v))>>

RECURSIVE VaultKeyNodes(_, _)
VaultKeyNodes(keys, i) ==
  IF i > Len(keys) THEN << >>
  ELSE <<Item(Str0, Node("map", Str0,
            <<Item(<<"vault_address">>, StrNode(keys[i].VaultAddress)),
              Item(<<"engine_path">>, StrNode(keys[i].EnginePath)),
              Item(<<"key_name">>, StrNode(keys[i].KeyName)),
              Item(<<"created_at">>, StrNode(FormatTime(keys[i].CreationDate))),
              Item(<<"enc">>, StrNode(keys[i].EncryptedKey))>>))>>
       \o VaultKeyNodes(keys, i + 1)

(* stores.MetadataFromInternal: the sops entry of the emitted document. *)
MetadataNode(md, mac) ==
  Node("map", Str0,
    <<Item(<<"hc_vault">>, Node("seq", Str0, VaultKeyNodes(md.KeyGroups, 1))),
      Item(<<"lastmodified">>, StrNode(FormatTime(md.LastModified))),
      Item(<<"mac">>, mac)>>
    \o OmitEmpty("unencrypted_suffix", md.UnencryptedSuffix)
    \o OmitEmpty("encrypted_suffix", md.EncryptedSuffix)
    \o OmitEmpty("unencrypted_regex", md.UnencryptedRegex)
    \o OmitEmpty("encrypted_regex", md.EncryptedRegex)
    \o <<Item(<<"version">>, StrNode(md.Version))>>)

(* Variant: the sops entry is put before the document's own entries. *)
WithMetadata_First(branch, md, mac) ==
  Node("map", Str0, <<Item(kSops, MetadataNode(md, mac))>> \o branch.kids)

WithMetadata(branch, md, mac) ==
  Node("map", Str0, Append(branch.kids, Item(kSops, MetadataNode(md, mac))))

(* ------------------ EmitEncryptedFile (JSON and YAML) ----------------- *)
RECURSIVE EmitJSONValue(_)
RECURSIVE EmitJSONItems(_, _, _)

EmitJSONValue(n) ==
  IF n.kind = "map" THEN <<LB>> \o EmitJSONItems(n.kids, 1, TRUE) \o <<RB>>
  ELSE IF n.kind = "seq" THEN <<LK>> \o EmitJSONItems(n.kids, 1, FALSE) \o <<RK>>
  ELSE <<Tok(n.kind, n.v)>>

EmitJSONItems(kids, i, isMap) ==
  IF i > Len(kids) THEN << >>
  ELSE (IF i > 1 THEN <<CM>> ELSE << >>)
       \o (IF isMap THEN <<TS(kids[i].key), CO>> ELSE << >>)
       \o EmitJSONValue(kids[i].val)
       \o EmitJSONItems(kids, i + 1, isMap)

YKey(v) == Tok("ykey", v)
YDash == Tok("ydash", Str0)
YIn == Tok("yin", Str0)
YOut == Tok("yout", Str0)
YEmptyMap == Tok("yflowmap", Str0)
YEmptySeq == Tok("yflowseq", Str0)

RECURSIVE EmitYAMLValue(_)
RECURSIVE EmitYAMLItems(_, _, _)

EmitYAMLValue(n) ==
  IF n.kind = "map"
  THEN IF n.kids = << >> THEN <<YEmptyMap>>
       ELSE <<YIn>> \o EmitYAMLItems(n.kids, 1, TRUE) \o <<YOut>>
  ELSE IF n.kind = "seq"
  THEN IF n.kids = << >> THEN <<YEmptySeq>>
       ELSE <<YIn>> \o EmitYAMLItems(n.kids, 1, FALSE) \o <<YOut>>
  ELSE <<Tok(n.kind, n.v)>>

EmitYAMLItems(kids, i, isMap) ==
  IF i > Len(kids) THEN << >>
  ELSE (IF isMap THEN <<YKey(kids[i].key)>> ELSE <<YDash>>)
       \o EmitYAMLValue(kids[i].val)
       \o EmitYAMLItems(kids, i + 1, isMap)

(* json.Indent(&buf, out, "", "  "): a line break plus depth*indent after *)
(* an opening bracket and after a comma and before a closing bracket, a   *)
(* space after a colon; empty containers stay closed.                     *)
RECURSIVE Repeat(_, _)
Repeat(unit, n) == IF n <= 0 THEN Str0 ELSE unit \o Repeat(unit, n - 1)
NL(unit, depth) == Tok("nl", Repeat(unit, depth))
SP == Tok("sp", Str0)

RECURSIVE Flatten(_, _, _)
Flatten(pieces, lo, hi) ==
  IF lo > hi THEN << >>
  ELSE IF lo = hi THEN pieces[lo]
  ELSE LET mid == (lo + hi) \div 2 IN
       Flatten(pieces, lo, mid) \o Flatten(pieces, mid + 1, hi)

(* Nesting depth of the text after the first i tokens. *)
DepthAfter(ts, i) ==
  Cardinality({j \in 1..i : ts[j].t \in {"lbrace", "lbrack"}})
  - Cardinality({j \in 1..i : ts[j].t \in {"rbrace", "rbrack"}})

JsonIndentPiece(ts, i, unit) ==
  LET t == ts[i].t
      opens == t \in {"lbrace", "lbrack"}
      closes == t \in {"rbrace", "rbrack"}
      emptyBody == opens /\ i < Len(ts) /\ ts[i + 1].t \in {"rbrace", "rbrack"}
      afterOpen == i > 1 /\ ts[i - 1].t \in {"lbrace", "lbrack"}
  IN IF opens
     THEN <<ts[i]>> \o (IF emptyBody THEN << >> ELSE <<NL(unit, DepthAfter(ts, i))>>)
     ELSE IF closes
     THEN (IF afterOpen THEN << >> ELSE <<NL(unit, DepthAfter(ts, i))>>) \o <<ts[i]>>
     ELSE IF t = "comma" THEN <<ts[i], NL(unit, DepthAfter(ts, i))>>
     ELSE IF t = "colon" THEN <<ts[i], SP>>
     ELSE <<ts[i]>>

(* The scanner of json.Indent drops the white space between the tokens of *)
(* its input before it writes its own.                                    *)
IsSpace(tok) == tok.t \in {"nl", "sp"}
NotSpace(tok) == ~IsSpace(tok)
SkipSpace(ts) == SelectSeq(ts, NotSpace)

JsonIndentTokens(ts, unit) ==
  Flatten([i \in 1..Len(ts) |-> JsonIndentPiece(ts, i, unit)], 1, Len(ts))

JsonIndent(ts, unit) == JsonIndentTokens(SkipSpace(ts), unit)

(* The indentation PrettyJSON asks for: two spaces. *)
PrettyIndent == <<"  ">>

(* sopsjson.Store.reindentJSON: a Store built as &sopsjson.Store{} has the *)
(* zero configuration, Indent = 0, and re-indents what it encoded with an  *)
(* indentation of no spaces: every element on a line of its own, a space   *)
(* after every colon, no leading white space.                              *)
StoreIndent == Str0

EmitEncryptedFileJSON_Compact(tree) == EmitJSONValue(tree)

EmitEncryptedFileJSON(tree) == JsonIndent(EmitJSONValue(tree), StoreIndent)

(* Variant: the YAML store writes the document as a JSON object. *)
EmitEncryptedFileYAML_AsJSON(tree) == EmitJSONValue(tree)

EmitEncryptedFileYAML(tree) == EmitYAMLItems(tree.kids, 1, TRUE)

Emit(api, tree) ==
  IF api = "EncryptToJSON" THEN EmitEncryptedFileJSON(tree)
  ELSE EmitEncryptedFileYAML(tree)

(* ----------------------- Terraform attribute values ------------------- *)
AKnown(v) == [st |-> "known", v |-> v]
ANull == [st |-> "null", v |-> Str0]
AUnknown == [st |-> "unknown", v |-> Str0]
IsNull(a) == a.st = "null"
IsUnknown(a) == a.st = "unknown"
ValueString(a) == IF a.st = "known" THEN a.v ELSE Str0

Scope(us, es, ur, er) ==
  [UnencryptedSuffix |-> us, EncryptedSuffix |-> es,
   UnencryptedRegex |-> ur, EncryptedRegex |-> er]

ScopeAttrs(sc) ==
  <<sc.UnencryptedSuffix, sc.EncryptedSuffix, sc.UnencryptedRegex, sc.EncryptedRegex>>

(* Variant: an attribute set to the empty string counts as set. *)
validateScope_CountsEmpty(sc) ==
  LET isSet(v) == ~IsNull(v) /\ ~IsUnknown(v)
      set == Cardinality({i \in 1..4 : isSet(ScopeAttrs(sc)[i])})
  IN ~(set > 1)

(* validateScope: TRUE when the check passes (returns nil). *)
validateScope(sc) ==
  LET isSet(v) == ~IsNull(v) /\ ~IsUnknown(v) /\ ValueString(v) # Str0
      set == Cardinality({i \in 1..4 : isSet(ScopeAttrs(sc)[i])})
  IN ~(set > 1)

(* encryptedJSONResource.encrypt / encryptedYAMLResource.encrypt: opts. *)
OptsOf(sc, pretty) ==
  Opts(ValueString(sc.UnencryptedSuffix), ValueString(sc.EncryptedSuffix),
       ValueString(sc.UnencryptedRegex), ValueString(sc.EncryptedRegex), pretty)

(* ------------------------------- state -------------------------------- *)
VARIABLES
  env,        \* the process environment of the provider (os.Getenv)
  provCfg,    \* the provider block of the configuration
  provider,   \* what Configure left: diagnostic, published provider data, login requests
  cfgN,       \* number of configuration calls made in this behaviour
  cfgArg,     \* cfgArg[k]: the inputs of configuration call k
  cfgOut,     \* cfgOut[k]: what configuration call k returned or set as state
  limit,      \* number of calls made in this behaviour
  arg,        \* arg[c]: the inputs of call c
  pc,         \* pc[c]: "idle", "wrapping" (wrap request sent), "done", "crashed"
  dataKey,    \* dataKey[c]: the data key generated by call c (0: none yet); a record of
              \* the call's local variable, kept for the properties, not program memory
  replied,    \* replied[c]: the kind of reply call c got to its wrap request ("none": not yet)
  ret,        \* ret[c]: what the core entry point returned to its caller
  requests,   \* the requests received by the Vault transit endpoint, in order, each with
              \* the call that sent it and the length in bytes of the key it carries
  rnd,        \* number of reads of the entropy source so far
  tfstate,    \* tfstate[r]: the Terraform state of resource r
  readCap,    \* number of Read operations this behaviour counts per resource
  reads,      \* reads[r]: Read operations on r since it came into state, up to readCap
  diag,       \* diag[r]: error diagnostic of the last operation on resource r
  now         \* the last reading of the clock (time.Now), in seconds; a behaviour
              \* starts at second 0 or at the last second the model counts

vars == <<env, provCfg, provider, cfgN, cfgArg, cfgOut, limit, arg, pc, dataKey, replied, ret, requests, rnd, tfstate, readCap, reads, diag, now>>

(* ------------------------- process environment ----------------------- *)
EnvVars ==
  {"VAULT_ADDR", "VAULT_TOKEN", "VAULT_ROLE_ID", "VAULT_SECRET_ID",
   "VAULT_AGENT_ADDR", "VAULT_NAMESPACE"}

(* os.Getenv: the value of the variable, the empty string when it is unset. *)
Getenv(envVar) == env[envVar]

(* ----------------------------- Vault client --------------------------- *)
(* NewVaultClient(address, token): vaultapi.DefaultConfig() reads the      *)
(* environment, cfg.Address and SetToken then replace VAULT_ADDR and       *)
(* VAULT_TOKEN; the agent address and the namespace read from the          *)
(* environment stay in the client.                                         *)
(* Variant: no variable of the environment is consulted. *)
NewVaultClient_EnvFree(address, token) ==
  [address |-> address, token |-> token, namespace |-> Str0]

NewVaultClient(address, token) ==
  [address |-> IF Getenv("VAULT_AGENT_ADDR") # Str0 THEN Getenv("VAULT_AGENT_ADDR") ELSE address,
   token |-> token,
   namespace |-> Getenv("VAULT_NAMESPACE")]

(* ------------------------------ Vault --------------------------------- *)
Base64(k) == <<"b64:", ToString(k)>>
WrapPath(transitPath, keyName) == transitPath \o <<"/encrypt/">> \o keyName
(* The transit engine's reply to a well-formed request. *)
VaultCiphertext(plaintext) == <<"vault:v1:">> \o plaintext

ReplyKinds == {"ok", "transport_error", "error_response", "empty", "bad_ciphertext"}

(* ------------------------------ errors -------------------------------- *)
Err(msg, cause) == [msg |-> msg, cause |-> cause]
NoErr == Err("", "")

(* client.Logical().Write as seen by wrapDataKey: (secret, err). *)
VaultReply(kind, plaintext) ==
  [err |-> IF kind = "transport_error" THEN "connection refused"
           ELSE IF kind = "error_response" THEN "403 permission denied"
           ELSE "",
   secretNil |-> kind \in {"transport_error", "error_response", "empty"},
   ctIsString |-> kind = "ok",
   ct |-> IF kind = "ok" THEN VaultCiphertext(plaintext) ELSE Str0]

(* Variant: the error of the write is dropped. *)
wrapDataKey_SwallowsError(reply) ==
  IF reply.secretNil /\ reply.err = ""
  THEN [panic |-> TRUE, ct |-> Str0, err |-> NoErr]
  ELSE IF ~reply.ctIsString /\ reply.err = ""
  THEN [panic |-> FALSE, ct |-> Str0,
        err |-> Err("unexpected vault response: ciphertext not a string", "")]
  ELSE [panic |-> FALSE, ct |-> reply.ct, err |-> NoErr]

(* wrapDataKey, from the reply on: the ciphertext, an error, or a panic   *)
(* (secret.Data is read without a nil check).                             *)
wrapDataKey(reply) ==
  IF reply.err # ""
  THEN [panic |-> FALSE, ct |-> Str0, err |-> Err("vault transit encrypt", reply.err)]
  ELSE IF reply.secretNil
  THEN [panic |-> TRUE, ct |-> Str0, err |-> NoErr]
  ELSE IF ~reply.ctIsString
  THEN [panic |-> FALSE, ct |-> Str0,
        err |-> Err("unexpected vault response: ciphertext not a string", "")]
  ELSE [panic |-> FALSE, ct |-> reply.ct, err |-> NoErr]

(* ------------------------------ provider ------------------------------ *)
(* sopsProviderModel: the six attributes of the provider block. *)
ProviderConfig(address, token, engine, roleID, secretID, approlePath) ==
  [VaultAddress |-> address, VaultToken |-> token, VaultTransitEngine |-> engine,
   VaultRoleID |-> roleID, VaultSecretID |-> secretID, VaultApprolePath |-> approlePath]

(* resolveString: the attribute when it is set and non-empty, else the variable. *)
resolveString(attr, envVar) ==
  IF ~IsNull(attr) /\ ~IsUnknown(attr) /\ ValueString(attr) # Str0
  THEN ValueString(attr) ELSE Getenv(envVar)

(* resolveStringDefault: the attribute when it is set and non-empty, else the default. *)
resolveStringDefault(attr, defaultVal) ==
  IF ~IsNull(attr) /\ ~IsUnknown(attr) /\ ValueString(attr) # Str0
  THEN ValueString(attr) ELSE defaultVal

(* What Vault answers to a login: a token, an error, an empty body, or a *)
(* secret without an auth block.                                         *)
LoginReplyKinds == {"ok", "transport_error", "error_response", "empty", "no_auth"}
ClientToken == <<"s.approle">>

LoginRequest(client, approlePath, roleID, secretID) ==
  [address |-> client.address, token |-> client.token, namespace |-> client.namespace,
   path |-> <<"auth/">> \o approlePath \o <<"/login">>,
   role_id |-> roleID, secret_id |-> secretID]

(* AppRoleLogin, with the kind of reply Vault gives to the login request. *)
AppRoleLogin(address, approlePath, roleID, secretID, kind) ==
  The({[req |-> LoginRequest(client, approlePath, roleID, secretID),
        token |-> IF kind = "ok" THEN ClientToken ELSE Str0,
        err |-> IF kind = "transport_error" THEN Err("approle login", "connection refused")
                ELSE IF kind = "error_response" THEN Err("approle login", "400 invalid role or secret ID")
                ELSE IF kind \in {"empty", "no_auth"}
                THEN Err("approle login: empty auth response from Vault", "")
                ELSE NoErr] :
         client \in {NewVaultClient(address, Str0)}})

(* sopsProviderData, and the absence of it. *)
NoProviderData ==
  [set |-> FALSE, vaultAddress |-> Str0, vaultToken |-> Str0, vaultTransitEngine |-> Str0]
sopsProviderData(vaultAddress, vaultToken, vaultTransitEngine) ==
  [set |-> TRUE, vaultAddress |-> vaultAddress, vaultToken |-> vaultToken,
   vaultTransitEngine |-> vaultTransitEngine]

(* The response of Configure: resp.Diagnostics, resp.ResourceData and     *)
(* resp.DataSourceData (one pointer), and the login requests it sent.     *)
(* reply is the kind of reply the login request got ("none": no login).   *)
NotConfigured ==
  [status |-> "none", diag |-> "", pd |-> NoProviderData, logins |-> << >>, reply |-> "none"]
ConfigureError(summary, logins) ==
  [status |-> "failed", diag |-> summary, pd |-> NoProviderData, logins |-> logins,
   reply |-> "none"]
Published(pd, logins) ==
  [status |-> "configured", diag |-> "", pd |-> pd, logins |-> logins, reply |-> "none"]
(* Configure waits in AppRoleLogin for the reply to the login it sent. *)
LoggingIn(logins) ==
  [status |-> "login", diag |-> "", pd |-> NoProviderData, logins |-> logins, reply |-> "none"]

(* Variant: AppRole credentials count only when both are given. *)
hasAppRole_Both(roleID, secretID) == roleID # Str0 /\ secretID # Str0

(* hasAppRole := roleID != "" || secretID != "" *)
hasAppRole(roleID, secretID) == roleID # Str0 \/ secretID # Str0

(* Configure from the credentials on (lines 108-157). *)
ConfigureCredentials(config, vaultAddress, vaultTransitEngine, vaultToken, roleID, secretID, kind) ==
  IF vaultToken # Str0 /\ hasAppRole(roleID, secretID)
  THEN ConfigureError("Conflicting Vault credentials", << >>)
  ELSE IF vaultToken # Str0
  THEN Published(sopsProviderData(vaultAddress, vaultToken, vaultTransitEngine), << >>)
  ELSE IF roleID # Str0 /\ secretID # Str0
  THEN The({IF l.err # NoErr
            THEN ConfigureError("AppRole authentication failed", <<l.req>>)
            ELSE Published(sopsProviderData(vaultAddress, l.token, vaultTransitEngine), <<l.req>>) :
              l \in {AppRoleLogin(vaultAddress,
                                  resolveStringDefault(config.VaultApprolePath, <<"approle">>),
                                  roleID, secretID, kind)}})
  ELSE IF roleID # Str0 \/ secretID # Str0
  THEN ConfigureError("Incomplete AppRole credentials", << >>)
  ELSE ConfigureError("Missing Vault credentials", << >>)

(* sopsProvider.Configure (lines 97-157). *)
ConfigureResponse(config, kind) ==
  IF resolveString(config.VaultAddress, "VAULT_ADDR") = Str0
  THEN ConfigureError("Missing Vault address", << >>)
  ELSE ConfigureCredentials(config,
                            resolveString(config.VaultAddress, "VAULT_ADDR"),
                            resolveStringDefault(config.VaultTransitEngine, <<"transit">>),
                            resolveString(config.VaultToken, "VAULT_TOKEN"),
                            resolveString(config.VaultRoleID, "VAULT_ROLE_ID"),
                            resolveString(config.VaultSecretID, "VAULT_SECRET_ID"),
                            kind)

(* r.pd / d.pd: the provider data the resources and the data source hold. *)
ProviderData == provider.pd

(* The client and the transit path of a direct call of the core. *)
CoreAddress == <<"http://vault">>
CoreToken == <<"s.token">>
CoreTransitPath == <<"transit">>

(* ------------------------- GenerateSOPSConfig ------------------------- *)
(* A Go slice of strings: nil, or a list (maybe empty). *)
NilList == [isNil |-> TRUE, elems |-> << >>]
List(elems) == [isNil |-> FALSE, elems |-> elems]

(* Variant: strings.TrimSuffix, which removes one trailing slash. *)
TrimRight_Once(s, c) ==
  IF Len(s) > 0 /\ s[Len(s)] = c THEN SubSeq(s, 1, Len(s) - 1) ELSE s

(* strings.TrimRight(s, c): s without its trailing run of c. *)
RECURSIVE TrimRight(_, _)
TrimRight(s, c) ==
  IF Len(s) > 0 /\ s[Len(s)] = c THEN TrimRight(SubSeq(s, 1, Len(s) - 1), c) ELSE s

KeyURI(vaultAddress, transitPath, keyName) ==
  TrimRight(vaultAddress, "/") \o <<"/", "v1", "/">> \o transitPath
    \o <<"/", "keys", "/">> \o keyName

sopsCreationRule(pathRegex, uri) == [PathRegex |-> pathRegex, HCVaultTransitURI |-> uri]

(* Variant: only a nil list gives the catch-all rule. *)
CreationRules_NilOnly(uri, pathRegexes) ==
  IF pathRegexes.isNil THEN <<sopsCreationRule(Str0, uri)>>
  ELSE [i \in 1..Len(pathRegexes.elems) |-> sopsCreationRule(pathRegexes.elems[i], uri)]

(* The rules of GenerateSOPSConfig: len(pathRegexes) == 0 is true of nil  *)
(* and of the empty list.                                                 *)
CreationRules(uri, pathRegexes) ==
  IF Len(pathRegexes.elems) = 0 THEN <<sopsCreationRule(Str0, uri)>>
  ELSE [i \in 1..Len(pathRegexes.elems) |-> sopsCreationRule(pathRegexes.elems[i], uri)]

(* Variant: path_regex without omitempty. *)
RuleNode_NoOmit(rule) ==
  Node("map", Str0,
    <<Item(<<"path_regex">>, StrNode(rule.PathRegex)),
      Item(<<"hc_vault_transit_uri">>, StrNode(rule.HCVaultTransitURI))>>)

(* yaml encoding of a sopsCreationRule: path_regex has omitempty. *)
RuleNode(rule) ==
  Node("map", Str0,
    OmitEmpty("path_regex", rule.PathRegex)
    \o <<Item(<<"hc_vault_transit_uri">>, StrNode(rule.HCVaultTransitURI))>>)

(* yaml encoding of a sopsFileConfig. *)
ConfigNode(rules) ==
  Node("map", Str0,
    <<Item(<<"creation_rules">>,
           Node("seq", Str0, [i \in 1..Len(rules) |-> Item(Str0, RuleNode(rules[i]))]))>>)

GenerateSOPSConfig(vaultAddress, transitPath, keyName, pathRegexes) ==
  [out |-> EmitYAMLItems(
             ConfigNode(CreationRules(KeyURI(vaultAddress, transitPath, keyName),
                                      pathRegexes)).kids, 1, TRUE),
   err |-> NoErr]

(* Variant: the digest of a fixed text. *)
Sha256Hex_Constant(content) == <<"sha256", Str0>>

(* sha256.Sum256 rendered with %x: a digest stands for the text it was    *)
(* computed from (no two texts of a behaviour collide).                   *)
Sha256Hex(content) == <<"sha256", content>>

(* The path_regexes attribute of the data source as a Go slice. *)
ElementsAs(attr) == IF attr.st = "known" THEN List(attr.v) ELSE NilList

(* ------------------------------ inputs -------------------------------- *)
(* {"pw":"s","h":"x"} *)
DocFlat == <<LB, TS(kPw), CO, TS(<<"s">>), CM, TS(kHost), CO, TS(<<"x">>), RB>>
(* {"db":{"h":"x","pw":"s"},"apw":"k"} *)
DocNested ==
  <<LB, TS(kDb), CO, LB, TS(kHost), CO, TS(<<"x">>), CM, TS(kPw), CO, TS(<<"s">>), RB,
    CM, TS(kApw), CO, TS(<<"k">>), RB>>
(* {"pw":{"h":"x"},"h":"y"} *)
DocAncestor ==
  <<LB, TS(kPw), CO, LB, TS(kHost), CO, TS(<<"x">>), RB, CM, TS(kHost), CO, TS(<<"y">>), RB>>
(* {"pw":["a","b"],"h":[1,true]} *)
DocSeq ==
  <<LB, TS(kPw), CO, LK, TS(<<"a">>), CM, TS(<<"b">>), RK, CM,
    TS(kHost), CO, LK, TN(<<"1">>), CM, TTrue, RK, RB>>
(* {"h":null,"pw":"","db":"v"} *)
DocEmpties ==
  <<LB, TS(kHost), CO, TNull, CM, TS(kPw), CO, TS(Str0), CM, TS(kDb), CO, TS(<<"v">>), RB>>
(* {"pw":["a","",null,1]} *)
DocSeqEmpties ==
  <<LB, TS(kPw), CO, LK, TS(<<"a">>), CM, TS(Str0), CM, TNull, CM, TN(<<"1">>), RK, RB>>
(* {} *)
DocNone == <<LB, RB>>
(* {"pw":"s","h":      (the text ends after a colon) *)
DocTruncated == <<LB, TS(kPw), CO, TS(<<"s">>), CM, TS(kHost), CO>>
(* {"a":[[1],"b"     (an array in an array, and no end) *)
DocNestedSeq == <<LB, TS(kA), CO, LK, LK, TN(<<"1">>), RK, CM, TS(kB)>>
(* ["a"]"b"     (an array, then a string) *)
DocArrayFirst == <<LK, TS(kA), RK, TS(kB)>>
(* {"pw" "s"}     (colon missing) *)
DocNoColon == <<LB, TS(kPw), TS(<<"s">>), RB>>

Docs == {DocFlat, DocNested, DocAncestor, DocSeq, DocEmpties, DocSeqEmpties, DocNone,
         DocTruncated, DocNoColon, DocNestedSeq, DocArrayFirst}

rePw == <<"^", "p", "w", "$">>
rePwOrHost == <<"^", "(", "p", "w", "|", "h", ")", "$">>
rePwAnywhere == <<"p", "w">>
reHost == <<"^", "h", "$">>
reDigit == <<"1">>

ScopeNone == Scope(ANull, ANull, ANull, ANull)
ScopeUS == Scope(AKnown(kPw), ANull, ANull, ANull)
ScopeES == Scope(AKnown(Str0), AKnown(kPw), AKnown(Str0), AKnown(Str0))
ScopeUR == Scope(ANull, ANull, AKnown(rePwAnywhere), ANull)
ScopeER == Scope(ANull, ANull, ANull, AKnown(rePwOrHost))
ScopeERUnknown == Scope(AUnknown, ANull, ANull, AKnown(rePw))
ScopeERDigit == Scope(ANull, ANull, ANull, AKnown(reDigit))
ScopeConflictA == Scope(AKnown(kPw), ANull, ANull, AKnown(reHost))
ScopeConflictB == Scope(ANull, AKnown(kPw), AKnown(reHost), ANull)

Scopes == {ScopeNone, ScopeUS, ScopeES, ScopeUR, ScopeER, ScopeERUnknown, ScopeERDigit,
           ScopeConflictA, ScopeConflictB}

KeyName1 == <<"k", "1">>
KeyName2 == <<"k", "2">>

Flavours ==
  {<<"EncryptToJSON", "core", FALSE>>, <<"EncryptToJSON", "core", TRUE>>,
   <<"EncryptToYAML", "core", FALSE>>,
   <<"EncryptToJSON", "create", FALSE>>, <<"EncryptToJSON", "create", TRUE>>,
   <<"EncryptToYAML", "create", FALSE>>}

Arg(fl, content, keyName, scope) ==
  [api |-> fl[1], caller |-> fl[2], pretty |-> fl[3],
   content |-> content, keyName |-> keyName, scope |-> scope]

(* Inputs of the behaviours with a single call, and of those with several. *)
WideArgs == {Arg(fl, d, KeyName1, sc) : fl \in Flavours, d \in Docs, sc \in Scopes}
NarrowInputs == {<<DocNested, ScopeER>>, <<DocEmpties, ScopeNone>>, <<DocNested, ScopeConflictA>>}
NarrowArgs == {Arg(fl, i[1], KeyName1, i[2]) : fl \in Flavours, i \in NarrowInputs}
AltArgs ==
  {Arg(<<"EncryptToYAML", "create", FALSE>>, DocFlat, KeyName2, ScopeUS),
   Arg(<<"EncryptToJSON", "core", FALSE>>, DocNoColon, KeyName1, ScopeUR)}

(* The same call without and with pretty: two calls, whatever MaxCalls is. *)
PrettyPairs ==
  {[limit |-> 2, args |-> [c \in Calls |-> IF c = 1 THEN a ELSE [a EXCEPT !.pretty = TRUE]]] :
     a \in {x \in NarrowArgs : x.api = "EncryptToJSON" /\ ~x.pretty}}

(* The same call through EncryptToJSON and through EncryptToYAML. *)
FormatPairs ==
  {[limit |-> 2,
    args |-> [c \in Calls |-> IF c = 1 THEN a ELSE [a EXCEPT !.api = "EncryptToYAML"]]] :
     a \in {x \in NarrowArgs : x.api = "EncryptToJSON" /\ ~x.pretty}
           \cup {Arg(<<"EncryptToJSON", "core", FALSE>>, DocNoColon, KeyName1, ScopeNone)}}

(* The calls of the behaviours that count their Read operations: the     *)
(* same Create twice.                                                     *)
ReadArgs ==
  {Arg(fl, DocNested, KeyName1, ScopeER) :
     fl \in {<<"EncryptToJSON", "create", TRUE>>, <<"EncryptToYAML", "create", FALSE>>}}

(* The calls of the behaviours in which the clock moves between two      *)
(* readings: the same call twice, and the same call with and without      *)
(* pretty and in the two formats. In the other behaviours every reading   *)
(* of the clock gives the same second.                                    *)
ClockArgs ==
  {Arg(fl, DocNested, KeyName1, ScopeER) :
     fl \in {<<"EncryptToJSON", "core", FALSE>>, <<"EncryptToYAML", "create", FALSE>>}}
ClockScenarios ==
  {[limit |-> 2, args |-> [c \in Calls |-> a]] : a \in ClockArgs}
  \cup {sc \in PrettyPairs \cup FormatPairs : sc.args[1] \in ClockArgs}

EncryptScenarios ==
  {[limit |-> 1, args |-> [c \in Calls |-> a]] : a \in WideArgs}
  \cup PrettyPairs
  \cup FormatPairs
  \cup UNION {{[limit |-> MaxCalls, args |-> [c \in Calls |-> IF c = 1 THEN a ELSE b]] :
                 b \in {a} \cup AltArgs} : a \in NarrowArgs}

(* Inputs of GenerateSOPSConfig and of the sops_config data source. *)
Host == <<"https://vault">>
CfgAddresses ==
  {Host, Host \o <<"/">>, Host \o <<"/", "/">>, Host \o <<"/", "p">>,
   Host \o <<"/", "p", "/", "/", "/">>, <<"/">>}
CfgPaths == {<<"transit">>, <<"kv", "/", "t">>}
reSecrets == <<"^secrets/">>
reConfig == <<"^config/">>
CfgRegexLists ==
  {NilList, List(<< >>), List(<<reSecrets>>), List(<<reSecrets, reConfig>>),
   List(<<Str0>>), List(<<reSecrets, Str0>>), List(<<reSecrets, reSecrets>>)}
CfgRegexAttrs ==
  {ANull, AUnknown, AKnown(<< >>), AKnown(<<reSecrets>>), AKnown(<<reConfig, reSecrets>>)}

(* A direct call: the four arguments. A read of the data source: the two *)
(* attributes of its configuration.                                      *)
CfgArg(vaultAddress, transitPath, keyName, pathRegexes) ==
  [caller |-> "core", vaultAddress |-> vaultAddress, transitPath |-> transitPath,
   keyName |-> keyName, pathRegexes |-> pathRegexes,
   VaultKeyName |-> ANull, VaultTransitEngine |-> ANull, PathRegexes |-> ANull]
DsArg(vaultKeyName, pathRegexes) ==
  [caller |-> "datasource", vaultAddress |-> Str0, transitPath |-> Str0,
   keyName |-> Str0, pathRegexes |-> NilList,
   VaultKeyName |-> vaultKeyName, VaultTransitEngine |-> ANull, PathRegexes |-> pathRegexes]
(* The same configuration with a vault_transit_engine argument. *)
DsArgEngine(vaultKeyName, vaultTransitEngine, pathRegexes) ==
  [DsArg(vaultKeyName, pathRegexes) EXCEPT !.VaultTransitEngine = vaultTransitEngine]

CoreCfgArgs ==
  {CfgArg(ad, tp, kn, re) :
     ad \in CfgAddresses, tp \in CfgPaths, kn \in {KeyName1, KeyName2}, re \in CfgRegexLists}
DsCfgArgs ==
  {DsArg(AKnown(kn), re) : kn \in {KeyName1, KeyName2}, re \in CfgRegexAttrs}
  \cup {DsArgEngine(AKnown(KeyName1), AKnown(e), ANull) : e \in {<<"kv">>, <<"transit">>}}

(* The calls a given call is compared with: itself, the call with another *)
(* address, the call with another regex list.                             *)
CfgVariants(a) ==
  IF a.caller = "core"
  THEN {[a EXCEPT !.vaultAddress = ad] : ad \in CfgAddresses}
       \cup {[a EXCEPT !.pathRegexes = re] : re \in {NilList, List(<< >>), List(<<reSecrets>>)}}
  ELSE {a}
CfgPairBase ==
  {a \in CoreCfgArgs : a.transitPath = <<"transit">> /\ a.keyName = KeyName1} \cup DsCfgArgs

ConfigScenarios ==
  {[n |-> 1, args |-> [k \in Calls |-> a]] : a \in CoreCfgArgs \cup DsCfgArgs}
  \cup UNION {{[n |-> 2, args |-> [k \in Calls |-> IF k = 1 THEN a ELSE b]] :
                 b \in CfgVariants(a)} : a \in CfgPairBase}

(* The process environment and the provider block. *)
NoEnv == [v \in EnvVars |-> Str0]
EnvOf(assignments) ==
  [v \in EnvVars |-> IF \E a \in assignments : a[1] = v
                     THEN (CHOOSE a \in assignments : a[1] = v)[2] ELSE Str0]
EnvAddr == <<"http://env-vault">>
EnvToken == <<"s.env">>
AgentAddr == <<"http://agent">>
Namespace == <<"ns1">>
Engine2 == <<"kv">>
RoleID == <<"role">>
SecretID == <<"secret">>

DefaultProviderConfig ==
  ProviderConfig(AKnown(CoreAddress), AKnown(CoreToken), ANull, ANull, ANull, ANull)

(* Provider blocks and environments for Configure alone. *)
ProviderConfigs ==
  {ProviderConfig(ad, tk, en, ro, se, ap) :
     ad \in {ANull, AKnown(CoreAddress), AKnown(Str0)},
     tk \in {ANull, AKnown(CoreToken), AUnknown},
     en \in {ANull, AKnown(Engine2)},
     ro \in {ANull, AKnown(RoleID)},
     se \in {ANull, AKnown(SecretID)},
     ap \in {ANull, AKnown(<<"ar2">>)}}
ConfigureEnvs ==
  {NoEnv, EnvOf({<<"VAULT_ADDR", EnvAddr>>}), EnvOf({<<"VAULT_TOKEN", EnvToken>>}),
   EnvOf({<<"VAULT_ADDR", EnvAddr>>, <<"VAULT_TOKEN", EnvToken>>}),
   EnvOf({<<"VAULT_ROLE_ID", RoleID>>}),
   EnvOf({<<"VAULT_ADDR", EnvAddr>>, <<"VAULT_ROLE_ID", RoleID>>, <<"VAULT_SECRET_ID", SecretID>>})}

(* Environments of encryption calls: variables Configure and the Vault    *)
(* client library read.                                                   *)
ClientEnvs ==
  {EnvOf({<<"VAULT_ADDR", EnvAddr>>, <<"VAULT_TOKEN", EnvToken>>}),
   EnvOf({<<"VAULT_AGENT_ADDR", AgentAddr>>}),
   EnvOf({<<"VAULT_NAMESPACE", Namespace>>})}

(* Provider blocks whose published data the operations then use. *)
UsedProviderConfigs ==
  {ProviderConfig(AKnown(CoreAddress), AKnown(CoreToken), AKnown(Engine2), ANull, ANull, ANull),
   ProviderConfig(AKnown(EnvAddr), ANull, ANull, AKnown(RoleID), AKnown(SecretID), ANull)}

NoArgs == [c \in Calls |-> Arg(<<"EncryptToJSON", "core", FALSE>>, DocNone, KeyName1, ScopeNone)]
NoCfgArgs == [k \in Calls |-> DsArg(ANull, ANull)]
OneCall(fl) == [c \in Calls |-> Arg(fl, DocFlat, KeyName1, ScopeNone)]

(* A behaviour is about encryption calls, about configuration calls, or   *)
(* about the configuration of the provider.                               *)
Scenarios ==
  {[limit |-> sc.limit, args |-> sc.args, cfgN |-> 0, cfgArgs |-> NoCfgArgs,
    provCfg |-> DefaultProviderConfig, env |-> NoEnv, readCap |-> 0, clock |-> MaxClock] : sc \in EncryptScenarios}
  \cup {[limit |-> 0, args |-> NoArgs, cfgN |-> sc.n, cfgArgs |-> sc.args,
         provCfg |-> DefaultProviderConfig, env |-> NoEnv, readCap |-> 0, clock |-> MaxClock] : sc \in ConfigScenarios}
  \cup {[limit |-> 0, args |-> NoArgs, cfgN |-> 0, cfgArgs |-> NoCfgArgs,
         provCfg |-> p, env |-> e, readCap |-> 0, clock |-> MaxClock] : p \in ProviderConfigs, e \in ConfigureEnvs}
  \cup {[limit |-> 1, args |-> OneCall(fl), cfgN |-> 0, cfgArgs |-> NoCfgArgs,
         provCfg |-> DefaultProviderConfig, env |-> e, readCap |-> 0, clock |-> MaxClock] :
          fl \in {<<"EncryptToJSON", "core", FALSE>>, <<"EncryptToYAML", "create", FALSE>>},
          e \in ClientEnvs}
  \cup {[limit |-> 1, args |-> OneCall(<<"EncryptToJSON", "create", FALSE>>),
         cfgN |-> 1, cfgArgs |-> [k \in Calls |-> DsArg(AKnown(KeyName1), ANull)],
         provCfg |-> p, env |-> NoEnv, readCap |-> 0, clock |-> MaxClock] : p \in UsedProviderConfigs}
  \cup {[limit |-> 1, args |-> OneCall(<<"EncryptToJSON", "core", FALSE>>),
         cfgN |-> 1,
         cfgArgs |-> [k \in Calls |-> CfgArg(Host, <<"transit">>, KeyName1, List(<<reSecrets>>))],
         provCfg |-> p, env |-> NoEnv, readCap |-> 0, clock |-> MaxClock] : p \in UsedProviderConfigs}
  \cup {[limit |-> 2, args |-> [c \in Calls |-> a], cfgN |-> 0, cfgArgs |-> NoCfgArgs,
         provCfg |-> DefaultProviderConfig, env |-> NoEnv, readCap |-> MaxReads,
         clock |-> MaxClock] : a \in ReadArgs}
  \cup {[limit |-> sc.limit, args |-> sc.args, cfgN |-> 0, cfgArgs |-> NoCfgArgs,
         provCfg |-> DefaultProviderConfig, env |-> NoEnv, readCap |-> 0, clock |-> 0] :
          sc \in ClockScenarios}

ImportIds == {KeyName1}

(* ------------------------------ resources ----------------------------- *)
Resources == {"sops_encrypted_json", "sops_encrypted_yaml"}
ResOf(api) == IF api = "EncryptToJSON" THEN "sops_encrypted_json" ELSE "sops_encrypted_yaml"

Absent ==
  [present |-> FALSE, ID |-> ANull, Content |-> ANull, VaultKeyName |-> ANull,
   Scope |-> ScopeNone, Pretty |-> "null", Ciphertext |-> ANull]

NoRet == [status |-> "none", out |-> << >>, err |-> NoErr]
Returned(out, err) == [status |-> "returned", out |-> out, err |-> err]
NotCalled == [status |-> "notcalled", out |-> << >>, err |-> NoErr]

WrapRequest(client, transitPath, keyName, key) ==
  [address |-> client.address, token |-> client.token, namespace |-> client.namespace,
   path |-> WrapPath(transitPath, keyName), plaintext |-> Base64(key)]

ParseError == Err("parsing content as JSON", "syntax error")

(* Variant: the wrap request is sent twice. *)
encryptDocumentBegin_Retry(client, transitPath, a, r) ==
  IF ~LoadPlainFile(a.content).ok
  THEN [sent |-> FALSE, err |-> ParseError, key |-> 0, keyLen |-> 0, rnd |-> r, req |-> << >>]
  ELSE [sent |-> TRUE, err |-> NoErr, key |-> r + 1, keyLen |-> DataKeyLen, rnd |-> r + 1,
        req |-> <<WrapRequest(client, transitPath, a.keyName, r + 1),
                  WrapRequest(client, transitPath, a.keyName, r + 1)>>]

(* Variant: the data key is generated before the content is parsed. *)
encryptDocumentBegin_KeyFirst(client, transitPath, a, r) ==
  IF ~LoadPlainFile(a.content).ok
  THEN [sent |-> FALSE, err |-> ParseError, key |-> r + 1, keyLen |-> DataKeyLen,
        rnd |-> r + 1, req |-> << >>]
  ELSE [sent |-> TRUE, err |-> NoErr, key |-> r + 1, keyLen |-> DataKeyLen, rnd |-> r + 1,
        req |-> <<WrapRequest(client, transitPath, a.keyName, r + 1)>>]

(* encryptDocument up to the wrap request (lines 94-104 and 190-194). *)
encryptDocumentBegin(client, transitPath, a, r) ==
  IF ~LoadPlainFile(a.content).ok
  THEN [sent |-> FALSE, err |-> ParseError, key |-> 0, keyLen |-> 0, rnd |-> r, req |-> << >>]
  ELSE The({[sent |-> TRUE, err |-> NoErr, key |-> dk.val, keyLen |-> dk.len, rnd |-> dk.next,
             req |-> <<WrapRequest(client, transitPath, a.keyName, dk.val)>>] :
              dk \in {generateDataKey(r)}})

(* The error of line 134: the walk of the tree has met a value it cannot  *)
(* walk.                                                                  *)
TreeError == Err("encrypting tree", "Cannot walk value, unknown type: json.Delim")

(* Variant: the master key records the data key itself, not the token    *)
(* the transit endpoint returned.                                         *)
encryptDocumentEmit_PlainKey(client, transitPath, a, opts, key, ct, r, clock) ==
  The({IF et.err THEN [panic |-> FALSE, out |-> << >>, err |-> TreeError, rnd |-> et.rnd]
       ELSE
       [panic |-> FALSE,
        out |-> Emit(a.api, WithMetadata(et.branch,
                       [Metadata(MasterKey(client.address, transitPath, a.keyName, Base64(key),
                                           clock.created), opts)
                          EXCEPT !.LastModified = et.lastModified],
                       et.mac)),
        err |-> NoErr, rnd |-> et.rnd] :
         et \in {EncryptTree(LoadPlainFile(a.content).branch, opts, key, r, clock.modified)}})

(* encryptDocument after a successful wrap (lines 109-142). The clock is *)
(* read twice: clock.created is time.Now() of line 114, clock.modified   *)
(* the time.Now() of common.EncryptTree, which is not reached when the    *)
(* walk of the tree fails.                                                *)
encryptDocumentEmit(client, transitPath, a, opts, key, ct, r, clock) ==
  The({IF et.err THEN [panic |-> FALSE, out |-> << >>, err |-> TreeError, rnd |-> et.rnd]
       ELSE
       [panic |-> FALSE,
        out |-> Emit(a.api, WithMetadata(et.branch,
                       [Metadata(MasterKey(client.address, transitPath, a.keyName, ct,
                                           clock.created), opts)
                          EXCEPT !.LastModified = et.lastModified],
                       et.mac)),
        err |-> NoErr, rnd |-> et.rnd] :
         et \in {EncryptTree(LoadPlainFile(a.content).branch, opts, key, r, clock.modified)}})

(* encryptDocument from the wrap reply on (lines 104-142). *)
encryptDocumentEnd(client, transitPath, a, opts, key, reply, r, clock) ==
  The({IF w.panic THEN [panic |-> TRUE, out |-> << >>, err |-> NoErr, rnd |-> r]
       ELSE IF w.err # NoErr THEN [panic |-> FALSE, out |-> << >>, err |-> w.err, rnd |-> r]
       ELSE encryptDocumentEmit(client, transitPath, a, opts, key, w.ct, r, clock) :
         w \in {wrapDataKey(reply)}})

(* EncryptToJSON / EncryptToYAML around encryptDocument. *)
EncryptToEnd(client, transitPath, a, opts, key, reply, r, clock) ==
  The({IF e.panic \/ e.err # NoErr THEN e
       ELSE IF a.api = "EncryptToJSON" /\ opts.PrettyJSON
       THEN [e EXCEPT !.out = JsonIndent(e.out, PrettyIndent)]
       ELSE e :
         e \in {encryptDocumentEnd(client, transitPath, a, opts, key, reply, r, clock)}})

(* The two readings a call can get from a clock that last read t: the    *)
(* clock does not go back, and reads at most MaxClock.                    *)
ClockReads(t) ==
  {cl \in [created : t..MaxClock, modified : t..MaxClock] : cl.created <= cl.modified}

(* The client and the transit path of call a: those of its caller for a   *)
(* direct call, those of encrypt() of the resource for a Create.          *)
TheClient(a) ==
  IF a.caller = "core" THEN NewVaultClient(CoreAddress, CoreToken)
  ELSE NewVaultClient(ProviderData.vaultAddress, ProviderData.vaultToken)
TransitPath(a) ==
  IF a.caller = "core" THEN CoreTransitPath ELSE ProviderData.vaultTransitEngine

InFlight(r) ==
  \E c \in Calls : pc[c] = "wrapping" /\ arg[c].caller = "create" /\ ResOf(arg[c].api) = r

NoCfgOut == [status |-> "none", out |-> << >>, err |-> NoErr, id |-> Str0]
CfgReturned(out, err, id) == [status |-> "returned", out |-> out, err |-> err, id |-> id]

Init ==
  /\ \E sc \in Scenarios :
       /\ limit = sc.limit /\ arg = sc.args /\ cfgN = sc.cfgN /\ cfgArg = sc.cfgArgs
       /\ provCfg = sc.provCfg /\ env = sc.env /\ readCap = sc.readCap /\ now = sc.clock
  /\ provider = NotConfigured
  /\ cfgOut = [k \in Calls |-> NoCfgOut]
  /\ pc = [c \in Calls |-> "idle"]
  /\ dataKey = [c \in Calls |-> 0]
  /\ replied = [c \in Calls |-> "none"]
  /\ ret = [c \in Calls |-> NoRet]
  /\ requests = << >>
  /\ rnd = 0
  /\ tfstate = [r \in Resources |-> Absent]
  /\ reads = [r \in Resources |-> 0]
  /\ diag = [r \in Resources |-> ""]

(* --------------------------- planning a change ------------------------ *)
(* encryptedJSONResource.Schema / encryptedYAMLResource.Schema: the input *)
(* attributes of resource r, and those with the RequiresReplace modifier. *)
InputAttributes(r) ==
  {"content", "vault_key_name", "unencrypted_suffix", "encrypted_suffix",
   "unencrypted_regex", "encrypted_regex"}
  \cup (IF r = "sops_encrypted_json" THEN {"pretty"} ELSE {})

(* Variant: pretty has no RequiresReplace modifier. *)
RequiresReplace_NotPretty(r) == InputAttributes(r) \ {"pretty"}

RequiresReplace(r) == InputAttributes(r)

(* The value of an input attribute in a state or in a plan. *)
AttributeOf(data, n) ==
  IF n = "content" THEN data.Content
  ELSE IF n = "vault_key_name" THEN data.VaultKeyName
  ELSE IF n = "unencrypted_suffix" THEN data.Scope.UnencryptedSuffix
  ELSE IF n = "encrypted_suffix" THEN data.Scope.EncryptedSuffix
  ELSE IF n = "unencrypted_regex" THEN data.Scope.UnencryptedRegex
  ELSE IF n = "encrypted_regex" THEN data.Scope.EncryptedRegex
  ELSE data.Pretty

(* What Terraform does with resource r in state prior when the plan is    *)
(* planned: nothing, Create, Delete followed by Create (an attribute with *)
(* RequiresReplace differs), or Update.                                   *)
PlannedOperation(r, prior, planned) ==
  IF ~prior.present THEN "create"
  ELSE IF \A n \in InputAttributes(r) : AttributeOf(prior, n) = AttributeOf(planned, n)
  THEN "none"
  ELSE IF \E n \in RequiresReplace(r) : AttributeOf(prior, n) # AttributeOf(planned, n)
  THEN "replace"
  ELSE "update"

(* sopsProvider.Configure up to its return or, with AppRole credentials,  *)
(* up to the login request AppRoleLogin sends (provider.go:97-130,        *)
(* encrypt.go:161-166). The request does not depend on the reply.         *)
(* Terraform calls it once; the operations of the resources and of the    *)
(* data source wait for what it publishes (ProviderReady), direct callers *)
(* of the library do not.                                                 *)
ConfigureBegin ==
  /\ provider.status = "none"
  /\ \E resp \in {ConfigureResponse(provCfg, "ok")} :
       provider' = IF resp.logins = << >> THEN resp ELSE LoggingIn(resp.logins)
  /\ UNCHANGED <<now, readCap, reads, env, provCfg, cfgN, cfgArg, cfgOut, limit, arg, pc, dataKey, replied, ret,
                 requests, rnd, tfstate, diag>>

(* The reply of Vault to the login reaches Configure, which runs to its   *)
(* return (encrypt.go:166-176, provider.go:130-157).                      *)
ConfigureReturn(kind) ==
  /\ provider.status = "login"
  /\ \E resp \in {ConfigureResponse(provCfg, kind)} :
       provider' = [resp EXCEPT !.reply = kind]
  /\ UNCHANGED <<now, readCap, reads, env, provCfg, cfgN, cfgArg, cfgOut, limit, arg, pc, dataKey, replied, ret,
                 requests, rnd, tfstate, diag>>

(* The resources and the data source work once Configure has published    *)
(* the provider data.                                                     *)
ProviderReady == provider.status = "configured"

CanStart(c) ==
  /\ c <= limit
  /\ pc[c] = "idle"
  /\ c > 1 => pc[c - 1] # "idle"

(* A direct call of EncryptToJSON / EncryptToYAML, up to the wrap request. *)
CoreCall(c) ==
  /\ CanStart(c)
  /\ arg[c].caller = "core"
  /\ \E b \in {encryptDocumentBegin(TheClient(arg[c]), TransitPath(arg[c]), arg[c], rnd)} :
     /\ rnd' = b.rnd
     /\ dataKey' = [dataKey EXCEPT ![c] = b.key]
     /\ requests' = requests \o [i \in 1..Len(b.req) |->
                                      [call |-> c, req |-> b.req[i], keyLen |-> b.keyLen]]
     /\ pc' = [pc EXCEPT ![c] = IF b.sent THEN "wrapping" ELSE "done"]
     /\ ret' = [ret EXCEPT ![c] = IF b.sent THEN NoRet ELSE Returned(<< >>, b.err)]
  /\ UNCHANGED <<now, readCap, reads, env, provCfg, provider, cfgN, cfgArg, cfgOut, limit, arg, replied, tfstate, diag>>

(* The reply of Vault reaches a direct call, which runs to its return. *)
CoreReturn(c, kind) ==
  /\ pc[c] = "wrapping"
  /\ arg[c].caller = "core"
  /\ \E clock \in ClockReads(now) :
     \E e \in {EncryptToEnd(TheClient(arg[c]), TransitPath(arg[c]), arg[c],
                              OptsOf(arg[c].scope, arg[c].pretty),
                              dataKey[c], VaultReply(kind, Base64(dataKey[c])), rnd, clock)} :
        /\ rnd' = e.rnd
        /\ now' = IF e.panic THEN now
                  ELSE IF e.err = NoErr THEN clock.modified
                  ELSE IF e.err = TreeError THEN clock.created
                  ELSE now
        /\ replied' = [replied EXCEPT ![c] = kind]
        /\ pc' = IF e.panic
                 THEN [x \in Calls |-> IF pc[x] = "wrapping" THEN "crashed" ELSE pc[x]]
                 ELSE [pc EXCEPT ![c] = "done"]
        /\ ret' = IF e.panic THEN ret ELSE [ret EXCEPT ![c] = Returned(e.out, e.err)]
  /\ UNCHANGED <<readCap, reads, env, provCfg, provider, cfgN, cfgArg, cfgOut, limit, arg, dataKey, requests, tfstate, diag>>

(* Create of sops_encrypted_json / sops_encrypted_yaml up to the wrap request. *)
Create(c) ==
  /\ CanStart(c)
  /\ arg[c].caller = "create"
  /\ ProviderReady
  /\ LET a == arg[c]
         r == ResOf(a.api)
     IN /\ ~tfstate[r].present
        /\ ~InFlight(r)
        /\ IF ~validateScope(a.scope)
           THEN /\ diag' = [diag EXCEPT ![r] = "Invalid scope configuration"]
                /\ pc' = [pc EXCEPT ![c] = "done"]
                /\ ret' = [ret EXCEPT ![c] = NotCalled]
                /\ UNCHANGED <<rnd, dataKey, requests>>
           ELSE \E b \in {encryptDocumentBegin(TheClient(a), TransitPath(a), a, rnd)} :
                /\ rnd' = b.rnd
                /\ dataKey' = [dataKey EXCEPT ![c] = b.key]
                /\ requests' = requests \o [i \in 1..Len(b.req) |->
                                      [call |-> c, req |-> b.req[i], keyLen |-> b.keyLen]]
                /\ pc' = [pc EXCEPT ![c] = IF b.sent THEN "wrapping" ELSE "done"]
                /\ ret' = [ret EXCEPT ![c] = IF b.sent THEN NoRet ELSE Returned(<< >>, b.err)]
                /\ diag' = [diag EXCEPT ![r] = IF b.sent THEN "" ELSE "SOPS encryption failed"]
  /\ UNCHANGED <<now, readCap, reads, env, provCfg, provider, cfgN, cfgArg, cfgOut, limit, arg, replied, tfstate>>

PlanData(a) ==
  [present |-> TRUE, ID |-> AUnknown, Content |-> AKnown(a.content),
   VaultKeyName |-> AKnown(a.keyName), Scope |-> a.scope,
   Pretty |-> IF a.api = "EncryptToJSON" THEN (IF a.pretty THEN "true" ELSE "false") ELSE "null",
   Ciphertext |-> AUnknown]

(* The reply of Vault reaches a Create, which runs to its return. *)
CreateReturn(c, kind) ==
  /\ pc[c] = "wrapping"
  /\ arg[c].caller = "create"
  /\ \E clock \in ClockReads(now) :
     \E e \in {EncryptToEnd(TheClient(arg[c]), TransitPath(arg[c]), arg[c],
                              OptsOf(arg[c].scope, arg[c].pretty),
                              dataKey[c], VaultReply(kind, Base64(dataKey[c])), rnd, clock)} :
     LET a == arg[c]
         r == ResOf(a.api)
     IN /\ rnd' = e.rnd
        /\ now' = IF e.panic THEN now
                  ELSE IF e.err = NoErr THEN clock.modified
                  ELSE IF e.err = TreeError THEN clock.created
                  ELSE now
        /\ replied' = [replied EXCEPT ![c] = kind]
        /\ pc' = IF e.panic
                 THEN [x \in Calls |-> IF pc[x] = "wrapping" THEN "crashed" ELSE pc[x]]
                 ELSE [pc EXCEPT ![c] = "done"]
        /\ ret' = IF e.panic THEN ret ELSE [ret EXCEPT ![c] = Returned(e.out, e.err)]
        /\ diag' = IF e.panic THEN diag
                   ELSE [diag EXCEPT ![r] = IF e.err # NoErr THEN "SOPS encryption failed" ELSE ""]
        /\ tfstate' = IF e.panic \/ e.err # NoErr THEN tfstate
                      ELSE [tfstate EXCEPT ![r] =
                              [PlanData(a) EXCEPT !.ID = AKnown(ValueString(AKnown(a.keyName))),
                                                  !.Ciphertext = AKnown(e.out)]]
  /\ UNCHANGED <<readCap, reads, env, provCfg, provider, cfgN, cfgArg, cfgOut, limit, arg, dataKey, requests>>

(* Variant: Read writes the state back without the ciphertext. *)
Read_DropsCiphertext(r) ==
  /\ ProviderReady
  /\ tfstate[r].present
  /\ ~InFlight(r)
  /\ reads' = [reads EXCEPT ![r] = IF reads[r] < readCap THEN reads[r] + 1 ELSE reads[r]]
  /\ tfstate' = [tfstate EXCEPT ![r].Ciphertext = ANull]
  /\ diag' = [diag EXCEPT ![r] = ""]
  /\ UNCHANGED <<now, readCap, env, provCfg, provider, cfgN, cfgArg, cfgOut, limit, arg, pc, dataKey, replied, ret, requests, rnd>>

(* Read: the state is read and written back as it is. *)
Read(r) ==
  /\ ProviderReady
  /\ tfstate[r].present
  /\ ~InFlight(r)
  /\ reads' = [reads EXCEPT ![r] = IF reads[r] < readCap THEN reads[r] + 1 ELSE reads[r]]
  /\ tfstate' = [tfstate EXCEPT ![r] = tfstate[r]]
  /\ diag' = [diag EXCEPT ![r] = ""]
  /\ UNCHANGED <<now, readCap, env, provCfg, provider, cfgN, cfgArg, cfgOut, limit, arg, pc, dataKey, replied, ret, requests, rnd>>

(* Update: always an error diagnostic, the state is left as it is. *)
Update(r) ==
  /\ ProviderReady
  /\ tfstate[r].present
  /\ ~InFlight(r)
  /\ diag' = [diag EXCEPT ![r] = "unexpected update"]
  /\ UNCHANGED <<now, readCap, reads, env, provCfg, provider, cfgN, cfgArg, cfgOut, limit, arg, pc, dataKey, replied, ret, requests, rnd, tfstate>>

(* Delete: does nothing; Terraform drops the resource from state. *)
Delete(r) ==
  /\ ProviderReady
  /\ tfstate[r].present
  /\ ~InFlight(r)
  /\ reads' = [reads EXCEPT ![r] = 0]
  /\ tfstate' = [tfstate EXCEPT ![r] = Absent]
  /\ diag' = [diag EXCEPT ![r] = ""]
  /\ UNCHANGED <<now, readCap, env, provCfg, provider, cfgN, cfgArg, cfgOut, limit, arg, pc, dataKey, replied, ret, requests, rnd>>

(* ImportState: ImportStatePassthroughID sets id, every other attribute is null. *)
ImportState(r, id) ==
  /\ ProviderReady
  /\ ~tfstate[r].present
  /\ ~InFlight(r)
  /\ tfstate' = [tfstate EXCEPT ![r] = [Absent EXCEPT !.present = TRUE, !.ID = AKnown(id)]]
  /\ diag' = [diag EXCEPT ![r] = ""]
  /\ UNCHANGED <<now, readCap, reads, env, provCfg, provider, cfgN, cfgArg, cfgOut, limit, arg, pc, dataKey, replied, ret, requests, rnd>>

(* A direct call of GenerateSOPSConfig. *)
GenerateSOPSConfigCall(k) ==
  /\ k <= cfgN
  /\ cfgOut[k].status = "none"
  /\ cfgArg[k].caller = "core"
  /\ \E g \in {GenerateSOPSConfig(cfgArg[k].vaultAddress, cfgArg[k].transitPath,
                                    cfgArg[k].keyName, cfgArg[k].pathRegexes)} :
       cfgOut' = [cfgOut EXCEPT ![k] = CfgReturned(g.out, g.err, Str0)]
  /\ UNCHANGED <<now, readCap, reads, env, provCfg, provider, cfgN, cfgArg, limit, arg, pc, dataKey, replied, ret, requests, rnd,
                 tfstate, diag>>

(* sopsConfigDataSource.Schema: the attributes a configuration may set,   *)
(* and those a given configuration sets.                                  *)
SchemaArguments == {"vault_key_name", "path_regexes"}
ArgumentsOf(a) ==
  {n \in {"vault_key_name", "vault_transit_engine", "path_regexes"} :
     ~IsNull(IF n = "vault_key_name" THEN a.VaultKeyName
             ELSE IF n = "vault_transit_engine" THEN a.VaultTransitEngine
             ELSE a.PathRegexes)}

(* sopsConfigDataSource.Read: a configuration with an argument the schema *)
(* does not have is rejected; otherwise the configuration is rendered     *)
(* from the provider data and the data source's attributes, and content   *)
(* and id are set.                                                        *)
ConfigRead(k) ==
  /\ k <= cfgN
  /\ cfgOut[k].status = "none"
  /\ cfgArg[k].caller = "datasource"
  /\ ProviderReady
  /\ IF ~(ArgumentsOf(cfgArg[k]) \subseteq SchemaArguments)
     THEN cfgOut' = [cfgOut EXCEPT ![k] =
                       CfgReturned(<< >>, Err("Unsupported argument", "vault_transit_engine"), Str0)]
     ELSE \E g \in {GenerateSOPSConfig(ProviderData.vaultAddress, ProviderData.vaultTransitEngine,
                                       ValueString(cfgArg[k].VaultKeyName),
                                       ElementsAs(cfgArg[k].PathRegexes))} :
            cfgOut' = [cfgOut EXCEPT ![k] = CfgReturned(g.out, g.err, Sha256Hex(g.out))]
  /\ UNCHANGED <<now, readCap, reads, env, provCfg, provider, cfgN, cfgArg, limit, arg, pc, dataKey, replied, ret,
                 requests, rnd, tfstate, diag>>

Next ==
  \/ ConfigureBegin
  \/ \E kind \in LoginReplyKinds : ConfigureReturn(kind)
  \/ \E k \in Calls : GenerateSOPSConfigCall(k)
  \/ \E k \in Calls : ConfigRead(k)
  \/ \E c \in Calls : CoreCall(c)
  \/ \E c \in Calls, k \in ReplyKinds : CoreReturn(c, k)
  \/ \E c \in Calls : Create(c)
  \/ \E c \in Calls, k \in ReplyKinds : CreateReturn(c, k)
  \/ \E r \in Resources : Read(r)
  \/ \E r \in Resources : Update(r)
  \/ \E r \in Resources : Delete(r)
  \/ \E r \in Resources, id \in ImportIds : ImportState(r, id)

Spec == Init /\ [][Next]_vars

(* ======================= properties of the model ======================= *)
(* The scalar values of an emitted document, in document order, up to the *)
(* sops entry.                                                            *)
IsValueAt(out, i) ==
  /\ out[i].t \in ScalarKinds
  /\ ~(i < Len(out) /\ out[i + 1].t = "colon")

IsSopsKeyAt(out, i) ==
  \/ out[i] = YKey(kSops)
  \/ out[i] = TS(kSops) /\ i < Len(out) /\ out[i + 1].t = "colon"

SopsIndex(out) ==
  LET is == {i \in 1..Len(out) : IsSopsKeyAt(out, i)} IN
  IF is = {} THEN 0 ELSE CHOOSE i \in is : \A j \in is : j <= i

ValuesFromTo(out, i, n) ==
  Flatten([j \in 1..n |-> IF j >= i /\ IsValueAt(out, j) THEN <<out[j]>> ELSE << >>], 1, n)

DocValues(out) == ValuesFromTo(out, 1, SopsIndex(out) - 1)

(* The scalar leaves of an input document with the mapping keys on their path. *)
RECURSIVE LeafList(_, _)
RECURSIVE LeafListItems(_, _, _, _)
LeafList(node, path) ==
  IF node.kind \in {"map", "seq"}
  THEN LeafListItems(node.kids, 1, node.kind = "map", path)
  ELSE <<[path |-> path, leaf |-> node]>>
LeafListItems(kids, i, isMap, path) ==
  IF i > Len(kids) THEN << >>
  ELSE LeafList(kids[i].val, IF isMap THEN Append(path, kids[i].key) ELSE path)
       \o LeafListItems(kids, i + 1, isMap, path)

InputLeaves(content) == LeafList(LoadPlainFile(content).branch, << >>)

Succeeded(c) == pc[c] = "done" /\ ret[c].status = "returned" /\ ret[c].err = NoErr
Failed(c) == pc[c] = "done" /\ ret[c].status = "returned" /\ ret[c].err # NoErr
OptsOfCall(c) == OptsOf(arg[c].scope, arg[c].pretty)

(* The scope rule of a policy with at most one field set, applied to a set of names. *)
RuleSelects(opts, names) ==
  IF opts.UnencryptedSuffix # Str0 THEN ~\E n \in names : HasSuffix(n, opts.UnencryptedSuffix)
  ELSE IF opts.EncryptedSuffix # Str0 THEN \E n \in names : HasSuffix(n, opts.EncryptedSuffix)
  ELSE IF opts.UnencryptedRegex # Str0 THEN ~\E n \in names : RegexpMatch(opts.UnencryptedRegex, n)
  ELSE IF opts.EncryptedRegex # Str0 THEN \E n \in names : RegexpMatch(opts.EncryptedRegex, n)
  ELSE TRUE

LastName(path) == {path[Len(path)]}
AllNames(path) == {path[i] : i \in 1..Len(path)}
IsEmptyLeaf(n) == n.kind = "null" \/ (n.kind = "str" /\ n.v = Str0)
AsToken(n) == Tok(n.kind, n.v)
IsEncOf(tok, n) == tok.t = "enc" /\ EncTypeOf(tok) = n.kind /\ EncPlainOf(tok) = n.v

(* C1 as stated: with at most one scope field set, a leaf of the output is *)
(* encrypted iff the rule selects the leaf by its own key name, and every  *)
(* leaf that is not selected is emitted unchanged.                         *)
C1_SelectedByOwnName ==
  \A c \in Calls :
    (Succeeded(c) /\ ScopeFieldsSet(OptsOfCall(c)) <= 1) =>
      LET ins == InputLeaves(arg[c].content)
          outs == DocValues(ret[c].out)
      IN /\ Len(outs) = Len(ins)
         /\ \A i \in 1..Len(ins) :
              IF RuleSelects(OptsOfCall(c), LastName(ins[i].path))
              THEN outs[i].t = "enc"
              ELSE outs[i] = AsToken(ins[i].leaf)

(* What the code does where C1 speaks: with at most one scope field set, a *)
(* leaf of the output is encrypted iff it is neither null nor the empty    *)
(* string and the rule selects it by some mapping key on its path; every   *)
(* other leaf is emitted unchanged.                                        *)
C1_SelectedByPath ==
  \A c \in Calls :
    (Succeeded(c) /\ ScopeFieldsSet(OptsOfCall(c)) <= 1) =>
      LET ins == InputLeaves(arg[c].content)
          outs == DocValues(ret[c].out)
      IN /\ Len(outs) = Len(ins)
         /\ \A i \in 1..Len(ins) :
              IF RuleSelects(OptsOfCall(c), AllNames(ins[i].path)) /\ ~IsEmptyLeaf(ins[i].leaf)
              THEN IsEncOf(outs[i], ins[i].leaf)
              ELSE outs[i] = AsToken(ins[i].leaf)

(* A call under an encrypted_regex policy has returned a document with an *)
(* encrypted and a plaintext leaf.                                         *)
C1_Witness ==
  \E c \in Calls :
    /\ Succeeded(c)
    /\ OptsOfCall(c).EncryptedRegex # Str0
    /\ \E i, j \in 1..Len(DocValues(ret[c].out)) :
         DocValues(ret[c].out)[i].t = "enc" /\ DocValues(ret[c].out)[j].t = "str"

AllScopeFieldsEmpty(opts) == ScopeFieldsSet(opts) = 0

(* C2 as stated: when all four scope fields are empty, every scalar leaf of *)
(* the document is encrypted in the output.                                 *)
C2_EveryLeafEncrypted ==
  \A c \in Calls :
    (Succeeded(c) /\ AllScopeFieldsEmpty(OptsOfCall(c))) =>
      LET ins == InputLeaves(arg[c].content)
          outs == DocValues(ret[c].out)
      IN /\ Len(outs) = Len(ins)
         /\ \A i \in 1..Len(outs) : outs[i].t = "enc"

(* What the code does where C2 speaks: when all four scope fields are      *)
(* empty, every scalar leaf other than null and the empty string is        *)
(* encrypted, at every depth; null and the empty string are emitted as     *)
(* they are.                                                               *)
C2_EveryNonEmptyLeafEncrypted ==
  \A c \in Calls :
    (Succeeded(c) /\ AllScopeFieldsEmpty(OptsOfCall(c))) =>
      LET ins == InputLeaves(arg[c].content)
          outs == DocValues(ret[c].out)
      IN /\ Len(outs) = Len(ins)
         /\ \A i \in 1..Len(ins) :
              IF IsEmptyLeaf(ins[i].leaf)
              THEN outs[i] = AsToken(ins[i].leaf)
              ELSE IsEncOf(outs[i], ins[i].leaf)

(* A call without scope fields has returned a nested document with a      *)
(* string, and one with a number, and every value is encrypted.            *)
C2_Witness ==
  \E c \in Calls :
    /\ Succeeded(c)
    /\ AllScopeFieldsEmpty(OptsOfCall(c))
    /\ arg[c].content \in {DocNested, DocSeq}
    /\ Len(DocValues(ret[c].out)) >= 3
    /\ \A i \in 1..Len(DocValues(ret[c].out)) : DocValues(ret[c].out)[i].t = "enc"

NumReq(c) == Cardinality({i \in 1..Len(requests) : requests[i].call = c})

(* C3 as stated: a direct call of EncryptToJSON / EncryptToYAML with two or  *)
(* more non-empty scope fields returns an error, generates no data key and   *)
(* sends no key-wrap request.                                                *)
C3_ScopeCheckFirstInCore ==
  \A c \in Calls :
    (pc[c] # "idle" /\ arg[c].caller = "core" /\ ScopeFieldsSet(OptsOfCall(c)) >= 2) =>
      /\ NumReq(c) = 0
      /\ dataKey[c] = 0
      /\ pc[c] = "done" /\ ret[c].status = "returned" /\ ret[c].err # NoErr /\ ret[c].out = << >>

NonEmptyScopeAttrs(sc) ==
  Cardinality({i \in 1..4 : ScopeAttrs(sc)[i].st = "known" /\ ScopeAttrs(sc)[i].v # Str0})

(* C4: a Create with more than one non-empty scope attribute fails with      *)
(* 'Invalid scope configuration', sends no key-wrap request, generates no    *)
(* key and writes nothing to state; null, unknown and empty attributes do    *)
(* not count, so a Create with at most one non-empty attribute passes the    *)
(* check.                                                                    *)
C4_CreateScopeCheck ==
  [][\A c \in Calls :
       (arg[c].caller = "create" /\ pc[c] = "idle" /\ pc'[c] # "idle") =>
         IF NonEmptyScopeAttrs(arg[c].scope) > 1
         THEN /\ diag'[ResOf(arg[c].api)] = "Invalid scope configuration"
              /\ pc'[c] = "done" /\ ret'[c] = NotCalled
              /\ requests' = requests /\ rnd' = rnd /\ dataKey' = dataKey
              /\ tfstate' = tfstate
         ELSE /\ diag'[ResOf(arg[c].api)] # "Invalid scope configuration"
              /\ ret'[c] # NotCalled]_vars

(* C4 witness: a Create with two non-empty scope attributes has been rejected. *)
C4_Witness ==
  \E c \in Calls :
    /\ arg[c].caller = "create"
    /\ NonEmptyScopeAttrs(arg[c].scope) > 1
    /\ pc[c] = "done"
    /\ diag[ResOf(arg[c].api)] = "Invalid scope configuration"
    /\ NumReq(c) = 0
    /\ ~tfstate[ResOf(arg[c].api)].present

(* C5: a call that has returned successfully has sent exactly one key-wrap   *)
(* request, and no call ever sends more than one.                            *)
C5_OneWrapPerCall ==
  \A c \in Calls :
    /\ NumReq(c) <= 1
    /\ Succeeded(c) => NumReq(c) = 1
    /\ Len(requests) <= Cardinality({x \in Calls : pc[x] # "idle"})

(* C5 witness: two calls have returned successfully, with two requests in all. *)
C5_Witness ==
  /\ \A c \in {1, 2} : Succeeded(c) /\ NumReq(c) = 1
  /\ Len(requests) = 2

WrapFailed(c) == replied[c] \in {"transport_error", "error_response"}

(* C6: when the key-wrap call fails, the call returns an error carrying the *)
(* cause and an empty output, no leaf has been encrypted (no nonce drawn),  *)
(* and a Create writes nothing to state.                                    *)
C6_WrapFailureAborts ==
  /\ [](\A c \in Calls : WrapFailed(c) =>
          /\ pc[c] = "done"
          /\ ret[c].status = "returned"
          /\ ret[c].out = << >>
          /\ ret[c].err # NoErr
          /\ ret[c].err.cause = VaultReply(replied[c], Str0).err)
  /\ [][\A c \in Calls : (replied[c] = "none" /\ WrapFailed(c)') =>
          /\ rnd' = rnd
          /\ tfstate' = tfstate
          /\ arg[c].caller = "create" => diag'[ResOf(arg[c].api)] = "SOPS encryption failed"]_vars

(* C6 witness: the wrap call of a Create has failed; nothing is in state. *)
C6_Witness ==
  \E c \in Calls :
    /\ WrapFailed(c)
    /\ arg[c].caller = "create"
    /\ Failed(c)
    /\ ~tfstate[ResOf(arg[c].api)].present
    /\ diag[ResOf(arg[c].api)] = "SOPS encryption failed"

(* C7 as stated: when the wrap call returns no error but malformed data (an *)
(* empty reply, or a ciphertext that is missing or not a string), the call  *)
(* returns an error to its caller; it never crashes.                        *)
C7_MalformedReplyIsError ==
  \A c \in Calls :
    /\ pc[c] # "crashed"
    /\ replied[c] \in {"empty", "bad_ciphertext"} =>
         /\ pc[c] = "done"
         /\ ret[c].status = "returned"
         /\ ret[c].err # NoErr
         /\ ret[c].out = << >>

(* A JSON document is one JSON value and nothing after it. *)
IsJSONDocument(content) ==
  \E r \in {ParseValue(content, 1)} : r.ok /\ r.next = Len(content) + 1
Unparseable(content) == ~IsJSONDocument(content)
EncryptionCalled(c) == pc[c] # "idle" /\ ret[c] # NotCalled

(* C8: when the content is not a JSON document, the call ends with a parse  *)
(* error and no output, before a data key is generated and before any wrap  *)
(* request is sent, and it takes no further step.                           *)
C8_ParseErrorFirst ==
  /\ [](\A c \in Calls : (EncryptionCalled(c) /\ Unparseable(arg[c].content)) =>
          /\ pc[c] = "done"
          /\ ret[c].status = "returned"
          /\ ret[c].out = << >>
          /\ ret[c].err.msg = "parsing content as JSON"
          /\ dataKey[c] = 0
          /\ NumReq(c) = 0)
  /\ [][\A c \in Calls : (Unparseable(arg[c].content) /\ pc[c] # pc'[c]) =>
          /\ pc[c] = "idle"
          /\ rnd' = rnd
          /\ requests' = requests
          /\ tfstate' = tfstate]_vars

(* What the loader keeps of C8: content it rejects ends the call with the  *)
(* parse error and no output, before a data key is generated and before    *)
(* any wrap request is sent.                                               *)
RejectedContentAbortsFirst ==
  \A c \in Calls : (EncryptionCalled(c) /\ ~LoadPlainFile(arg[c].content).ok) =>
    /\ pc[c] = "done"
    /\ ret[c] = Returned(<< >>, Err("parsing content as JSON", "syntax error"))
    /\ dataKey[c] = 0
    /\ NumReq(c) = 0

(* Content that is not a JSON document and that the loader accepts: the   *)
(* call has sent its wrap request and returned an artifact.               *)
TruncatedContentEncrypted ==
  \E c \in Calls :
    /\ Unparseable(arg[c].content)
    /\ Succeeded(c)
    /\ dataKey[c] # 0
    /\ NumReq(c) = 1

(* C9 as stated: every call that has ended has returned either a complete   *)
(* artifact and no error, or an error and an empty output.                  *)
C9_ArtifactOrError ==
  \A c \in Calls :
    (pc[c] \notin {"idle", "wrapping"} /\ ret[c] # NotCalled) =>
      /\ pc[c] = "done"
      /\ ret[c].status = "returned"
      /\ \/ ret[c].err = NoErr /\ SopsIndex(ret[c].out) > 0
         \/ ret[c].err # NoErr /\ ret[c].out = << >>

SameInputs(c1, c2) ==
  /\ arg[c1].api = arg[c2].api
  /\ arg[c1].content = arg[c2].content
  /\ arg[c1].keyName = arg[c2].keyName
  /\ OptsOfCall(c1) = OptsOfCall(c2)

(* C10: two successful encryptions of the same document under the same      *)
(* policy and key name differ in their data key and in every ciphertext,    *)
(* and agree in structure, in the plaintext leaves and in which leaves are  *)
(* encrypted.                                                               *)
C10_FreshCiphertext ==
  \A c1, c2 \in Calls :
    (c1 < c2 /\ Succeeded(c1) /\ Succeeded(c2) /\ SameInputs(c1, c2)) =>
      \E o1 \in {ret[c1].out}, o2 \in {ret[c2].out}, s \in {SopsIndex(ret[c1].out)} :
         /\ o1 # o2
         /\ dataKey[c1] # dataKey[c2]
         /\ Len(o1) = Len(o2)
         /\ \A i \in 1..Len(o1) :
              /\ o1[i].t = o2[i].t
              /\ o1[i].t = "enc" =>
                   /\ o1[i] # o2[i]
                   /\ EncPlainOf(o1[i]) = EncPlainOf(o2[i])
                   /\ EncTypeOf(o1[i]) = EncTypeOf(o2[i])
              /\ (o1[i].t # "enc" /\ i < s) => o1[i] = o2[i]

(* C10 witness: two calls with the same inputs have both returned a document *)
(* with an encrypted leaf.                                                   *)
C10_Witness ==
  \E c1, c2 \in Calls :
    /\ c1 < c2 /\ Succeeded(c1) /\ Succeeded(c2) /\ SameInputs(c1, c2)
    /\ \E i \in 1..Len(DocValues(ret[c1].out)) : DocValues(ret[c1].out)[i].t = "enc"

(* ------------------- reading an emitted document back ------------------ *)
(* An ENC[...] value is a string of the emitted text. *)
AsPlain(tok) == IF tok.t = "enc" THEN TS(<<"ENC">> \o tok.v) ELSE tok
PlainTokens(out) == [i \in 1..Len(out) |-> AsPlain(out[i])]

ReadJSON(out) == ParseValue(PlainTokens(SkipSpace(out)), 1)

RECURSIVE YParseValue(_, _)
RECURSIVE YParseItems(_, _, _, _)
YParseValue(ts, i) ==
  IF i > Len(ts) THEN PFail
  ELSE IF ts[i] = YEmptyMap THEN PR(TRUE, Node("map", Str0, << >>), i + 1)
  ELSE IF ts[i] = YEmptySeq THEN PR(TRUE, Node("seq", Str0, << >>), i + 1)
  ELSE IF ts[i].t \in {"str", "num", "bool", "null"}
       THEN PR(TRUE, Node(ts[i].t, ts[i].v, << >>), i + 1)
  ELSE IF ts[i] = YIn /\ i < Len(ts) /\ ts[i + 1].t = "ykey"
       THEN YParseItems(ts, i + 1, TRUE, << >>)
  ELSE IF ts[i] = YIn /\ i < Len(ts) /\ ts[i + 1] = YDash
       THEN YParseItems(ts, i + 1, FALSE, << >>)
  ELSE PFail
YParseItems(ts, i, isMap, acc) ==
  IF i > Len(ts) THEN PFail
  ELSE IF ts[i] = YOut
       THEN PR(TRUE, Node(IF isMap THEN "map" ELSE "seq", Str0, acc), i + 1)
  ELSE IF (isMap /\ ts[i].t = "ykey") \/ (~isMap /\ ts[i] = YDash)
       THEN The({IF r.ok
                 THEN YParseItems(ts, r.next, isMap, Append(acc, Item(ts[i].v, r.node)))
                 ELSE PFail : r \in {YParseValue(ts, i + 1)}})
  ELSE PFail

ReadYAML(out) == YParseValue(<<YIn>> \o PlainTokens(out) \o <<YOut>>, 1)

(* The document an artifact holds: ok iff the whole text is one document. *)
ReadBack(api, out) ==
  The({[ok |-> r.ok /\ r.next = n + 1, node |-> r.node] :
         r \in {IF api = "EncryptToJSON" THEN ReadJSON(out) ELSE ReadYAML(out)},
         n \in {IF api = "EncryptToJSON" THEN Len(SkipSpace(out)) ELSE Len(out) + 2}})

(* A tree with every scalar leaf blanked: its keys, their order, the *)
(* nesting and the order of the sequence elements.                   *)
RECURSIVE Blank(_)
Blank(n) ==
  IF n.kind \in {"map", "seq"}
  THEN Node(n.kind, Str0, [i \in 1..Len(n.kids) |-> Item(n.kids[i].key, Blank(n.kids[i].val))])
  ELSE Node("leaf", Str0, << >>)

RECURSIVE Depth(_)
Depth(n) ==
  IF n.kind \in {"map", "seq"} /\ n.kids # << >>
  THEN 1 + (CHOOSE d \in {Depth(n.kids[i].val) : i \in 1..Len(n.kids)} :
              \A i \in 1..Len(n.kids) : Depth(n.kids[i].val) <= d)
  ELSE 0

(* The entries of a mapping but the last. *)
ButLast(n) == Node(n.kind, Str0, SubSeq(n.kids, 1, Len(n.kids) - 1))
LastKey(n) == n.kids[Len(n.kids)].key

(* C11: the artifact of a successful call, read back, is a mapping whose *)
(* last entry is sops and whose other entries are the input document's:  *)
(* same keys in the same order, same nesting, same order of sequence     *)
(* elements, with scalar leaves where the input has scalar leaves.       *)
C11_StructurePreserved ==
  \A c \in Calls :
    Succeeded(c) =>
      \E back \in {ReadBack(arg[c].api, ret[c].out)} :
        /\ back.ok
        /\ back.node.kind = "map"
        /\ Len(back.node.kids) = Len(LoadPlainFile(arg[c].content).branch.kids) + 1
        /\ LastKey(back.node) = kSops
        /\ Blank(ButLast(back.node)) = Blank(LoadPlainFile(arg[c].content).branch)

C11_Witness ==
  \E c \in Calls :
    /\ Succeeded(c)
    /\ arg[c].content = DocSeq
    /\ arg[c].api = "EncryptToYAML"
    /\ Depth(LoadPlainFile(arg[c].content).branch) >= 2
    /\ ReadBack(arg[c].api, ret[c].out).ok

(* --------------------------- C12: whose name --------------------------- *)
(* The one scope pattern of a policy, tried on a key name. *)
NameMatches(opts, n) ==
  IF opts.UnencryptedSuffix # Str0 THEN HasSuffix(n, opts.UnencryptedSuffix)
  ELSE IF opts.EncryptedSuffix # Str0 THEN HasSuffix(n, opts.EncryptedSuffix)
  ELSE IF opts.UnencryptedRegex # Str0 THEN RegexpMatch(opts.UnencryptedRegex, n)
  ELSE RegexpMatch(opts.EncryptedRegex, n)

(* encrypted_suffix and encrypted_regex name what is encrypted, the *)
(* unencrypted_* fields what is not.                                *)
NamesTheEncrypted(opts) == opts.EncryptedSuffix # Str0 \/ opts.EncryptedRegex # Str0

OwnKey(path) == path[Len(path)]
AncestorKeys(path) == {path[i] : i \in 1..(Len(path) - 1)}

(* C12 as stated: with one suffix or regex rule, the name of the last      *)
(* mapping key on the path alone decides: a non-empty leaf is encrypted    *)
(* iff its own key is named for encryption (or is not named for plaintext) *)
(* whatever the ancestor keys are called.                                  *)
C12_OwnKeyAlone ==
  \A c \in Calls :
    (Succeeded(c) /\ ScopeFieldsSet(OptsOfCall(c)) = 1) =>
      \A i \in 1..Len(InputLeaves(arg[c].content)) :
        \E l \in {InputLeaves(arg[c].content)[i]} :
          ~IsEmptyLeaf(l.leaf) =>
            ((DocValues(ret[c].out)[i].t = "enc")
               <=> (NamesTheEncrypted(OptsOfCall(c))
                      <=> NameMatches(OptsOfCall(c), OwnKey(l.path))))

(* C12 amended: the pattern is tried on every mapping key of the path. A   *)
(* non-empty leaf whose own key or one of whose ancestor keys matches is   *)
(* encrypted under an encrypted_* rule and plaintext under an              *)
(* unencrypted_* rule; where no key of the path matches, it is the other   *)
(* way round.                                                              *)
C12_AnyKeyOfThePath ==
  \A c \in Calls :
    (Succeeded(c) /\ ScopeFieldsSet(OptsOfCall(c)) = 1) =>
      \A i \in 1..Len(InputLeaves(arg[c].content)) :
        \E l \in {InputLeaves(arg[c].content)[i]} :
          ~IsEmptyLeaf(l.leaf) =>
            ((DocValues(ret[c].out)[i].t = "enc")
               <=> (NamesTheEncrypted(OptsOfCall(c))
                      <=> (\/ NameMatches(OptsOfCall(c), OwnKey(l.path))
                           \/ \E k \in AncestorKeys(l.path) :
                                NameMatches(OptsOfCall(c), k))))

(* C12 witness: under an encrypted_regex rule a call has returned a leaf   *)
(* encrypted because of an ancestor key only, next to a plaintext leaf.    *)
C12_Witness ==
  \E c \in Calls :
    /\ Succeeded(c)
    /\ ScopeFieldsSet(OptsOfCall(c)) = 1
    /\ OptsOfCall(c).EncryptedRegex # Str0
    /\ \E i, j \in 1..Len(InputLeaves(arg[c].content)) :
         /\ ~NameMatches(OptsOfCall(c), OwnKey(InputLeaves(arg[c].content)[i].path))
         /\ \E k \in AncestorKeys(InputLeaves(arg[c].content)[i].path) :
              NameMatches(OptsOfCall(c), k)
         /\ DocValues(ret[c].out)[i].t = "enc"
         /\ DocValues(ret[c].out)[j].t = "str"

(* --------------------------- C13: sequences ---------------------------- *)
(* The scalar leaves of a document in the order of LeafList, each with the *)
(* place of its parent (the child indices from the root) and whether the   *)
(* parent is a sequence.                                                   *)
RECURSIVE LeafPlaces(_, _, _)
RECURSIVE LeafPlacesItems(_, _, _, _)
LeafPlaces(node, place, inSeq) ==
  IF node.kind \in {"map", "seq"}
  THEN LeafPlacesItems(node.kids, 1, place, node.kind = "seq")
  ELSE <<[parent |-> SubSeq(place, 1, Len(place) - 1), inSeq |-> inSeq, leaf |-> node]>>
LeafPlacesItems(kids, i, place, isSeq) ==
  IF i > Len(kids) THEN << >>
  ELSE LeafPlaces(kids[i].val, Append(place, i), isSeq)
       \o LeafPlacesItems(kids, i + 1, place, isSeq)

InputPlaces(content) == LeafPlaces(LoadPlainFile(content).branch, << >>, FALSE)

SameSequence(a, b) == a.inSeq /\ b.inSeq /\ a.parent = b.parent

(* C13 as stated: the scalar elements of one sequence are all encrypted or *)
(* all left in plaintext.                                                  *)
C13_SequenceAllOrNothing ==
  \A c \in Calls :
    Succeeded(c) =>
      \A i, j \in 1..Len(InputPlaces(arg[c].content)) :
        SameSequence(InputPlaces(arg[c].content)[i], InputPlaces(arg[c].content)[j]) =>
          ((DocValues(ret[c].out)[i].t = "enc") <=> (DocValues(ret[c].out)[j].t = "enc"))

(* What the code does where C13 speaks: the scalar elements of one         *)
(* sequence other than null and the empty string are all encrypted or all  *)
(* left in plaintext; an element that is null or the empty string is       *)
(* emitted as it is.                                                       *)
C13_NonEmptyElementsAlike ==
  \A c \in Calls :
    Succeeded(c) =>
      \E places \in {InputPlaces(arg[c].content)}, leaves \in {InputLeaves(arg[c].content)},
         vals \in {DocValues(ret[c].out)} :
        \A i, j \in 1..Len(places) :
          \E a \in {places[i]}, b \in {places[j]} :
            SameSequence(a, b) =>
              /\ leaves[i].path = leaves[j].path
              /\ IsEmptyLeaf(a.leaf) => vals[i] = AsToken(a.leaf)
              /\ (~IsEmptyLeaf(a.leaf) /\ ~IsEmptyLeaf(b.leaf)) =>
                   ((vals[i].t = "enc") <=> (vals[j].t = "enc"))

(* A call has returned a sequence with an encrypted string, an encrypted  *)
(* number and an empty string left as it is.                               *)
C13_Witness ==
  \E c \in Calls :
    /\ Succeeded(c)
    /\ \E i, j, k \in 1..Len(InputPlaces(arg[c].content)) :
         /\ SameSequence(InputPlaces(arg[c].content)[i], InputPlaces(arg[c].content)[j])
         /\ SameSequence(InputPlaces(arg[c].content)[i], InputPlaces(arg[c].content)[k])
         /\ DocValues(ret[c].out)[i].t = "enc" /\ EncTypeOf(DocValues(ret[c].out)[i]) = "str"
         /\ DocValues(ret[c].out)[k].t = "enc" /\ EncTypeOf(DocValues(ret[c].out)[k]) = "num"
         /\ DocValues(ret[c].out)[j] = TS(Str0)

(* ----------------------------- C14: layout ----------------------------- *)
JSONCall(c) == Succeeded(c) /\ arg[c].api = "EncryptToJSON"

(* The text of a document without what differs from one encryption to the *)
(* next: the key and nonce of an ENC[...] value, the wrapped data key and  *)
(* the time stamps.                                                        *)
MaskTok(tok) ==
  IF tok.t = "enc" THEN Tok("enc", <<EncTypeOf(tok)>> \o EncPlainOf(tok))
  ELSE IF tok.t = "str" /\ Len(tok.v) > 0 /\ tok.v[1] = "vault:v1:" THEN TS(<<"vault:v1:">>)
  ELSE IF tok.t = "str" /\ Len(tok.v) > 0 /\ tok.v[1] = "rfc3339:" THEN TS(<<"rfc3339:">>)
  ELSE tok
JSONValue(out) == [i \in 1..Len(SkipSpace(out)) |-> MaskTok(SkipSpace(out)[i])]

NoSpaceBetweenTokens(out) == \A i \in 1..Len(out) : ~IsSpace(out[i])

(* One element per line: a line break after every opening bracket of a    *)
(* non-empty container, after every comma and before every closing        *)
(* bracket, each followed by depth times the unit; a space after a colon.  *)
LaidOut(out, unit) == out = JsonIndentTokens(SkipSpace(out), unit)

SameButPretty(c, d) ==
  /\ arg[c].pretty /\ ~arg[d].pretty
  /\ [arg[c] EXCEPT !.pretty = FALSE] = arg[d]

(* C14 as stated: the pretty output is laid out with two spaces per level, *)
(* the output without pretty has no white space between its tokens.        *)
C14_CompactWithoutPretty ==
  \A c \in Calls :
    JSONCall(c) =>
      /\ ReadBack("EncryptToJSON", ret[c].out).ok
      /\ IF arg[c].pretty THEN LaidOut(ret[c].out, PrettyIndent)
         ELSE NoSpaceBetweenTokens(ret[c].out)

(* C14 amended: both outputs are valid JSON with one element per line and  *)
(* a space after every colon; with pretty the lines are indented with two  *)
(* spaces per level, without it no line is indented. Two calls that differ *)
(* in the flag only return the same JSON value up to the fresh ciphertext. *)
C14_LayoutByFlag ==
  /\ \A c \in Calls :
       JSONCall(c) =>
         /\ ReadBack("EncryptToJSON", ret[c].out).ok
         /\ LaidOut(ret[c].out, IF arg[c].pretty THEN PrettyIndent ELSE Str0)
         /\ \E i \in 1..Len(ret[c].out) : ret[c].out[i].t = "nl"
         /\ \E i \in 1..Len(ret[c].out) : ret[c].out[i] = SP
         /\ ~arg[c].pretty => \A i \in 1..Len(ret[c].out) :
                                 ret[c].out[i].t = "nl" => ret[c].out[i].v = Str0
  /\ \A c, d \in Calls :
       (JSONCall(c) /\ JSONCall(d) /\ SameButPretty(c, d)) =>
          JSONValue(ret[c].out) = JSONValue(ret[d].out)

(* C14 witness: the same nested document was encrypted with and without    *)
(* pretty; the pretty output has a line indented by four spaces, the other *)
(* output has line breaks too.                                             *)
C14_Witness ==
  \E c, d \in Calls :
    /\ JSONCall(c) /\ JSONCall(d) /\ SameButPretty(c, d)
    /\ \E i \in 1..Len(ret[c].out) : ret[c].out[i] = Tok("nl", <<"  ", "  ">>)
    /\ \E i \in 1..Len(ret[d].out) : ret[d].out[i] = Tok("nl", Str0)

(* ---------------------------- C15: metadata ---------------------------- *)
(* The values of the entries of a mapping under a key. *)
Field(n, key) == {n.kids[i].val : i \in {j \in 1..Len(n.kids) : n.kids[j].key = key}}
HasOne(n, key, v) ==
  /\ Cardinality({j \in 1..Len(n.kids) : n.kids[j].key = key}) = 1
  /\ Field(n, key) = {StrNode(v)}

(* The top-level sops entries of an artifact read back. *)
MetadataBlocks(api, out) == Field(ReadBack(api, out).node, kSops)

(* The token the transit endpoint returned to the wrap request of call c. *)
WrappedKeyOf(c) ==
  {VaultCiphertext(requests[i].req.plaintext) : i \in {j \in 1..Len(requests) : requests[j].call = c}}

RecordsScope(meta, key, v) ==
  IF v = Str0 THEN Field(meta, <<key>>) = {} ELSE HasOne(meta, <<key>>, v)

(* C15: the artifact of a successful call has one sops entry; its hc_vault *)
(* list has one entry with the token of this call's wrap request, the key  *)
(* name and transit path of the call and the client's address; the scope   *)
(* fields recorded are the ones the caller supplied, no other.             *)
C15_MetadataOfThisCall ==
  \A c \in Calls :
    Succeeded(c) =>
      \E blocks \in {MetadataBlocks(arg[c].api, ret[c].out)} :
      /\ Cardinality(blocks) = 1
      /\ \A meta \in blocks :
           /\ meta.kind = "map"
           /\ Cardinality(Field(meta, <<"hc_vault">>)) = 1
           /\ \A keys \in Field(meta, <<"hc_vault">>) :
                /\ keys.kind = "seq"
                /\ Len(keys.kids) = 1
                /\ Cardinality(WrappedKeyOf(c)) = 1
                /\ \A tok \in WrappedKeyOf(c) : HasOne(keys.kids[1].val, <<"enc">>, tok)
                /\ HasOne(keys.kids[1].val, <<"key_name">>, arg[c].keyName)
                /\ HasOne(keys.kids[1].val, <<"engine_path">>, TransitPath(arg[c]))
                /\ HasOne(keys.kids[1].val, <<"vault_address">>, TheClient(arg[c]).address)
           /\ RecordsScope(meta, "unencrypted_suffix", OptsOfCall(c).UnencryptedSuffix)
           /\ RecordsScope(meta, "encrypted_suffix", OptsOfCall(c).EncryptedSuffix)
           /\ RecordsScope(meta, "unencrypted_regex", OptsOfCall(c).UnencryptedRegex)
           /\ RecordsScope(meta, "encrypted_regex", OptsOfCall(c).EncryptedRegex)

(* C15 witness: two calls with different key names and different scope     *)
(* fields have both returned an artifact.                                  *)
C15_Witness ==
  \E c, d \in Calls :
    /\ Succeeded(c) /\ Succeeded(d)
    /\ arg[c].keyName # arg[d].keyName
    /\ OptsOfCall(c).EncryptedRegex # Str0
    /\ OptsOfCall(d).UnencryptedSuffix # Str0
    /\ WrappedKeyOf(c) # WrappedKeyOf(d)

(* ------------------------ C16: JSON and YAML alike ---------------------- *)
SameButFormat(c, d) ==
  /\ arg[c].api = "EncryptToJSON" /\ arg[d].api = "EncryptToYAML"
  /\ [arg[c] EXCEPT !.api = "EncryptToYAML"] = arg[d]

Done(c) == pc[c] = "done" /\ ret[c].status = "returned"

RequestsOf(c) == SelectSeq([i \in 1..Len(requests) |-> requests[i].call], LAMBDA x : x = c)
PathsOf(c) == {requests[i].req.path : i \in {j \in 1..Len(requests) : requests[j].call = c}}

(* The document of an artifact without what differs between two encryptions. *)
MaskOut(out) == [i \in 1..Len(out) |-> MaskTok(out[i])]
MaskedDocument(api, out) == ReadBack(api, MaskOut(out))

IsJSONToken(tok) == tok.t \in {"lbrace", "rbrace", "lbrack", "rbrack", "colon", "comma"}

(* C16: the same input through EncryptToJSON and EncryptToYAML, answered   *)
(* alike by Vault, takes the same steps: both fail with the same error or  *)
(* both succeed after one wrap request to the same path each, with the     *)
(* same leaves encrypted and the same metadata fields; the YAML artifact   *)
(* is block YAML, not a JSON object, and its last top-level key is sops.   *)
C16_SameEncryptionTwoSerializers ==
  /\ \A c, d \in Calls :
       (SameButFormat(c, d) /\ Done(c) /\ Done(d) /\ replied[c] = replied[d]) =>
          /\ ret[c].err = ret[d].err
          /\ Len(RequestsOf(c)) = Len(RequestsOf(d))
          /\ PathsOf(c) = PathsOf(d)
          /\ (dataKey[c] = 0) <=> (dataKey[d] = 0)
          /\ Succeeded(c) =>
               /\ Len(RequestsOf(c)) = 1
               /\ MaskedDocument("EncryptToJSON", ret[c].out).ok
               /\ MaskedDocument("EncryptToJSON", ret[c].out)
                    = MaskedDocument("EncryptToYAML", ret[d].out)
  /\ \A d \in Calls :
       (Succeeded(d) /\ arg[d].api = "EncryptToYAML") =>
          /\ ret[d].out[1].t = "ykey"
          /\ \A i \in 1..Len(ret[d].out) : ~IsJSONToken(ret[d].out[i])
          /\ ReadBack("EncryptToYAML", ret[d].out).ok
          /\ LastKey(ReadBack("EncryptToYAML", ret[d].out).node) = kSops

(* C16 witness: a nested document under an encrypted_regex rule has been   *)
(* encrypted to JSON and to YAML, with an encrypted and a plaintext leaf.  *)
C16_Witness ==
  \E c, d \in Calls :
    /\ SameButFormat(c, d) /\ Succeeded(c) /\ Succeeded(d)
    /\ OptsOfCall(c).EncryptedRegex # Str0
    /\ \E i, j \in 1..Len(DocValues(ret[d].out)) :
         DocValues(ret[d].out)[i].t = "enc" /\ DocValues(ret[d].out)[j].t = "str"

(* ----------------------- C17..C20: the .sops.yaml ---------------------- *)
CfgDone(k) == cfgOut[k].status = "returned" /\ cfgOut[k].err = NoErr

(* The arguments GenerateSOPSConfig was called with. *)
AddressOf(k) ==
  IF cfgArg[k].caller = "core" THEN cfgArg[k].vaultAddress ELSE ProviderData.vaultAddress
EngineOf(k) ==
  IF cfgArg[k].caller = "core" THEN cfgArg[k].transitPath ELSE ProviderData.vaultTransitEngine
KeyNameOf(k) ==
  IF cfgArg[k].caller = "core" THEN cfgArg[k].keyName ELSE cfgArg[k].VaultKeyName.v
RegexesOf(k) ==
  IF cfgArg[k].caller = "core" THEN cfgArg[k].pathRegexes.elems
  ELSE IF cfgArg[k].PathRegexes.st = "known" THEN cfgArg[k].PathRegexes.v ELSE << >>

(* The creation rules of a rendered configuration, read back. *)
RulesOf(out) ==
  IF ReadYAML(out).ok /\ Cardinality(Field(ReadYAML(out).node, <<"creation_rules">>)) = 1
  THEN (CHOOSE n \in Field(ReadYAML(out).node, <<"creation_rules">>) : TRUE).kids
  ELSE << >>
RuleURIs(rule) == Field(rule, <<"hc_vault_transit_uri">>)
RulePathRegexes(rule) == Field(rule, <<"path_regex">>)

(* C17: with an empty or absent regex list the configuration has one rule, *)
(* with a key URI and without any path_regex field.                        *)
C17_OneCatchAllRule ==
  \A k \in Calls :
    (CfgDone(k) /\ Len(RegexesOf(k)) = 0) =>
      /\ Len(RulesOf(cfgOut[k].out)) = 1
      /\ Cardinality(RuleURIs(RulesOf(cfgOut[k].out)[1].val)) = 1
      /\ RulePathRegexes(RulesOf(cfgOut[k].out)[1].val) = {}
      /\ \A i \in 1..Len(cfgOut[k].out) : cfgOut[k].out[i] # YKey(<<"path_regex">>)

(* C17 witness: GenerateSOPSConfig has returned for an empty list that is  *)
(* not nil.                                                                *)
C17_Witness ==
  \E k \in Calls :
    /\ CfgDone(k) /\ cfgArg[k].caller = "core"
    /\ cfgArg[k].pathRegexes = List(<< >>)
    /\ Len(RulesOf(cfgOut[k].out)) = 1

(* C18 as stated: a list of n >= 1 entries gives n rules in the order of   *)
(* the list, the i-th with a path_regex field equal to the i-th entry,     *)
(* the empty string included, all with the same key URI.                   *)
C18_OneRulePerEntryWithPathRegex ==
  \A k \in Calls :
    (CfgDone(k) /\ Len(RegexesOf(k)) > 0) =>
      /\ Len(RulesOf(cfgOut[k].out)) = Len(RegexesOf(k))
      /\ \A i \in 1..Len(RulesOf(cfgOut[k].out)) :
           /\ RulePathRegexes(RulesOf(cfgOut[k].out)[i].val) = {StrNode(RegexesOf(k)[i])}
           /\ RuleURIs(RulesOf(cfgOut[k].out)[i].val) = RuleURIs(RulesOf(cfgOut[k].out)[1].val)
           /\ Cardinality(RuleURIs(RulesOf(cfgOut[k].out)[i].val)) = 1

EmptyRegexes(k) == Len(RegexesOf(k)) = 0
SameButRegexes(k, l) ==
  /\ cfgArg[k].caller = "core" /\ cfgArg[l].caller = "core"
  /\ [cfgArg[k] EXCEPT !.pathRegexes = NilList] = [cfgArg[l] EXCEPT !.pathRegexes = NilList]

(* C19: a nil list and an empty list give the same text, and so do two    *)
(* calls with equal arguments.                                            *)
C19_NilAndEmptyAlike ==
  \A k, l \in Calls :
    (CfgDone(k) /\ CfgDone(l)) =>
      /\ (SameButRegexes(k, l) /\ EmptyRegexes(k) /\ EmptyRegexes(l)) =>
            cfgOut[k].out = cfgOut[l].out
      /\ cfgArg[k] = cfgArg[l] => cfgOut[k] = cfgOut[l]

(* C19 witness: a call with nil and a call with the empty list, otherwise *)
(* alike, have both returned.                                             *)
C19_Witness ==
  \E k, l \in Calls :
    /\ CfgDone(k) /\ CfgDone(l) /\ SameButRegexes(k, l)
    /\ cfgArg[k].pathRegexes = NilList
    /\ cfgArg[l].pathRegexes = List(<< >>)

(* An address without its trailing slashes: its longest prefix that does  *)
(* not end with a slash.                                                  *)
WithoutTrailingSlashes(s) ==
  SubSeq(s, 1, CHOOSE m \in 0..Len(s) :
                 /\ m = 0 \/ s[m] # "/"
                 /\ \A i \in (m + 1)..Len(s) : s[i] = "/")

ExpectedURI(k) ==
  WithoutTrailingSlashes(AddressOf(k)) \o <<"/", "v1", "/">> \o EngineOf(k)
    \o <<"/", "keys", "/">> \o KeyNameOf(k)

FirstV1(uri) == CHOOSE p \in 1..Len(uri) : uri[p] = "v1" /\ \A q \in 1..(p - 1) : uri[q] # "v1"

SameButAddress(k, l) ==
  /\ cfgArg[k].caller = "core" /\ cfgArg[l].caller = "core"
  /\ [cfgArg[k] EXCEPT !.vaultAddress = Str0] = [cfgArg[l] EXCEPT !.vaultAddress = Str0]

(* C20: the key URI of every rule is the address without its trailing     *)
(* slashes, then /v1/<enginePath>/keys/<keyName>; there is one slash, not  *)
(* two, before v1; addresses that differ in trailing slashes only give     *)
(* the same text.                                                          *)
C20_KeyURI ==
  /\ \A k \in Calls :
       CfgDone(k) =>
         /\ Len(RulesOf(cfgOut[k].out)) >= 1
         /\ \A i \in 1..Len(RulesOf(cfgOut[k].out)) :
              /\ RuleURIs(RulesOf(cfgOut[k].out)[i].val) = {StrNode(ExpectedURI(k))}
              /\ \A u \in RuleURIs(RulesOf(cfgOut[k].out)[i].val) :
                   \E p \in {FirstV1(u.v)} :
                     /\ p >= 2 /\ u.v[p - 1] = "/"
                     /\ p >= 3 => u.v[p - 2] # "/"
  /\ \A k, l \in Calls :
       (CfgDone(k) /\ CfgDone(l) /\ SameButAddress(k, l)
          /\ WithoutTrailingSlashes(AddressOf(k)) = WithoutTrailingSlashes(AddressOf(l))) =>
         cfgOut[k].out = cfgOut[l].out

(* C20 witness: calls with an address with three trailing slashes and     *)
(* with the same address without them have both returned.                 *)
C20_Witness ==
  \E k, l \in Calls :
    /\ CfgDone(k) /\ CfgDone(l) /\ SameButAddress(k, l)
    /\ AddressOf(k) = Host \o <<"/", "p", "/", "/", "/">>
    /\ AddressOf(l) = Host \o <<"/", "p">>

(* ------------------------- sops_config: arguments ---------------------- *)
DataSourceRead(k) == cfgArg[k].caller = "datasource" /\ cfgOut[k].status = "returned"
SetsEngine(k) ==
  cfgArg[k].VaultTransitEngine.st = "known" /\ cfgArg[k].VaultTransitEngine.v # Str0

(* The engine path the documentation of the data source promises. *)
DocumentedEngine(k) ==
  IF SetsEngine(k) THEN cfgArg[k].VaultTransitEngine.v ELSE ProviderData.vaultTransitEngine

(* C21: a read of the sops_config data source whose configuration sets    *)
(* vault_transit_engine succeeds, and the key URI of every rule has that   *)
(* value as its engine path; without the argument the engine path is the   *)
(* provider's, which defaults to transit.                                  *)
C21_DataSourceEngineArgument ==
  \A k \in Calls :
    DataSourceRead(k) =>
      /\ cfgOut[k].err = NoErr
      /\ Len(RulesOf(cfgOut[k].out)) >= 1
      /\ \A i \in 1..Len(RulesOf(cfgOut[k].out)) :
           RuleURIs(RulesOf(cfgOut[k].out)[i].val) =
             {StrNode(KeyURI(ProviderData.vaultAddress, DocumentedEngine(k), KeyNameOf(k)))}

(* ---------------------- sops_config: a pure function ------------------- *)
(* The digest of a text, as the attribute id shows it. *)
DigestOf(text) == <<"sha256", text>>

SameDataSourceInputs(k, l) ==
  /\ cfgArg[k].caller = "datasource" /\ cfgArg[l].caller = "datasource"
  /\ KeyNameOf(k) = KeyNameOf(l)
  /\ RegexesOf(k) = RegexesOf(l)

(* C22: a read of the sops_config data source sends no request (no        *)
(* key-wrap request, no login), reads no entropy and leaves the provider   *)
(* data and the resources alone; its id is the digest of its content; and  *)
(* a read with the key name and the regex list of an earlier read of the   *)
(* same provider gives the same content and the same id.                   *)
C22_DataSourcePure ==
  [][\A k \in Calls :
       (cfgArg[k].caller = "datasource" /\ cfgOut[k].status = "none"
          /\ cfgOut'[k].status = "returned") =>
         /\ requests' = requests /\ provider' = provider /\ rnd' = rnd
         /\ tfstate' = tfstate /\ env' = env
         /\ cfgOut'[k].err = NoErr =>
              /\ cfgOut'[k].id = DigestOf(cfgOut'[k].out)
              /\ \A l \in Calls :
                   (l # k /\ CfgDone(l) /\ SameDataSourceInputs(k, l)) =>
                     /\ cfgOut'[k].out = cfgOut[l].out
                     /\ cfgOut'[k].id = cfgOut[l].id]_vars

(* C22 witness: two reads of the data source with the same key name and   *)
(* the same two regexes have both set a content and an id.                *)
C22_Witness ==
  \E k, l \in Calls :
    /\ k # l /\ CfgDone(k) /\ CfgDone(l) /\ SameDataSourceInputs(k, l)
    /\ Len(RegexesOf(k)) = 2
    /\ cfgOut[k].out # << >> /\ cfgOut[k].id = cfgOut[l].id

(* ------------------------ resources: Read and state -------------------- *)
(* The inputs held in the state of r are the inputs of call d. *)
InputsInState(r, d) ==
  /\ arg[d].caller = "create" /\ ResOf(arg[d].api) = r
  /\ tfstate[r] = [PlanData(arg[d]) EXCEPT !.ID = tfstate[r].ID,
                                           !.Ciphertext = tfstate[r].Ciphertext]

(* The requests a step adds come from the calls in this set. *)
NewRequestCalls == {requests'[i].call : i \in (Len(requests) + 1)..Len(requests')}

(* C23: a resource that stays in state keeps its whole state (id,          *)
(* ciphertext and every input attribute) and no key-wrap request is sent   *)
(* for it; a Read changes no state of any resource, sends no request and   *)
(* reads no entropy; and the ciphertext in state is the output of at most  *)
(* one of the successful encryptions of the inputs in state: any other     *)
(* encryption of the same inputs gave another ciphertext.                  *)
C23_CiphertextStable ==
  [][\A r \in Resources :
       /\ (tfstate[r].present /\ tfstate'[r].present) =>
            /\ tfstate'[r] = tfstate[r]
            /\ \A d \in NewRequestCalls : ~(arg[d].caller = "create" /\ ResOf(arg[d].api) = r)
       /\ reads'[r] = reads[r] + 1 =>
            /\ tfstate' = tfstate /\ requests' = requests /\ rnd' = rnd
            /\ pc' = pc /\ dataKey' = dataKey
            /\ Cardinality({d \in Calls : /\ Succeeded(d) /\ InputsInState(r, d)
                                          /\ tfstate[r].Ciphertext = AKnown(ret[d].out)}) <= 1]_vars

(* C23 witness: after two successful Creates of the same inputs (the       *)
(* resource was deleted in between) the resource has been read twice; its  *)
(* ciphertext is that of the second Create, not that of the first.         *)
C23_Witness ==
  \E r \in Resources :
    /\ reads[r] = MaxReads
    /\ Succeeded(1) /\ Succeeded(2) /\ InputsInState(r, 1) /\ InputsInState(r, 2)
    /\ tfstate[r].Ciphertext = AKnown(ret[2].out)
    /\ tfstate[r].Ciphertext # AKnown(ret[1].out)
    /\ Len(requests) = 2

(* ----------------------- resources: no update in place ----------------- *)
(* Call c is a Create of resource r that has not started. *)
PendingCreate(r, c) ==
  c <= limit /\ pc[c] = "idle" /\ arg[c].caller = "create" /\ ResOf(arg[c].api) = r

(* C24: (a) for a resource in state and inputs to come that differ from    *)
(* those in state in any input attribute, the planned operation is Delete  *)
(* followed by Create, never Update; (b) the state of a resource that      *)
(* stays in state never changes: state is written by a Create for a        *)
(* resource that is not in state, with the ciphertext of an encryption     *)
(* that this Create performed with one key-wrap request of its own;        *)
(* (c) an Update ends with an error diagnostic, leaves the state of every  *)
(* resource alone and sends no request.                                    *)
C24_ReplaceNeverUpdate ==
  [][\A r \in Resources :
       /\ \A c \in Calls :
            (tfstate[r].present /\ PendingCreate(r, c)) =>
              PlannedOperation(r, tfstate[r], PlanData(arg[c]))
                = IF InputsInState(r, c) THEN "none" ELSE "replace"
       /\ (tfstate[r].present /\ tfstate'[r].present) => tfstate'[r] = tfstate[r]
       /\ (~tfstate[r].present /\ tfstate'[r].present /\ ~IsNull(tfstate'[r].Ciphertext)) =>
            \E c \in Calls :
              /\ pc[c] = "wrapping" /\ pc'[c] = "done" /\ InputsInState(r, c)'
              /\ tfstate'[r].Ciphertext = AKnown(ret'[c].out)
              /\ Cardinality({i \in 1..Len(requests) : requests[i].call = c}) = 1
              /\ \A d \in Calls \ {c} : dataKey[d] # dataKey[c]
       /\ (diag'[r] = "unexpected update" /\ diag[r] # "unexpected update") =>
            /\ tfstate' = tfstate /\ requests' = requests /\ rnd' = rnd]_vars

(* C24 witness: a resource created with pretty = false was replaced by a   *)
(* Create with pretty = true, which encrypted anew; an Update on it then   *)
(* ended with an error and the state is still that of the second Create.   *)
C24_Witness ==
  \E r \in Resources :
    /\ Succeeded(1) /\ Succeeded(2)
    /\ arg[1].caller = "create" /\ ResOf(arg[1].api) = r /\ arg[1].pretty # arg[2].pretty
    /\ InputsInState(r, 2)
    /\ tfstate[r].Ciphertext = AKnown(ret[2].out)
    /\ ret[1].out # ret[2].out
    /\ diag[r] = "unexpected update"

(* ---------------------------- provider Configure ----------------------- *)
(* A setting of the provider: the attribute of the provider block when it *)
(* is known and not empty, else the variable of the environment.          *)
Resolved(attr, envVar) == IF attr.st = "known" /\ attr.v # Str0 THEN attr.v ELSE env[envVar]
ResolvedAddress == Resolved(provCfg.VaultAddress, "VAULT_ADDR")
ResolvedToken == Resolved(provCfg.VaultToken, "VAULT_TOKEN")
ResolvedRoleID == Resolved(provCfg.VaultRoleID, "VAULT_ROLE_ID")
ResolvedSecretID == Resolved(provCfg.VaultSecretID, "VAULT_SECRET_ID")

TokenMethod == ResolvedToken # Str0 /\ ResolvedRoleID = Str0 /\ ResolvedSecretID = Str0
AppRoleMethod == ResolvedToken = Str0 /\ ResolvedRoleID # Str0 /\ ResolvedSecretID # Str0
ConfigureHasRun == provider.status \in {"failed", "configured"}

(* C25: once Configure has run, provider data is published exactly when   *)
(* the resolved address is not empty and either a token alone is given or  *)
(* role id and secret id alone are given and the login succeeded; the      *)
(* published data holds the resolved address and the token given or        *)
(* obtained; otherwise there is an error diagnostic and no provider data.  *)
(* A login request is sent only for a non-empty address with role id and   *)
(* secret id and no token, and then once, with these credentials.          *)
C25_ConfigurePublishes ==
  ConfigureHasRun =>
    /\ provider.pd.set <=>
         /\ ResolvedAddress # Str0
         /\ TokenMethod \/ (AppRoleMethod /\ provider.reply = "ok")
    /\ ProviderReady <=> provider.pd.set
    /\ provider.diag # "" <=> ~provider.pd.set
    /\ provider.pd.set =>
         /\ provider.pd.vaultAddress = ResolvedAddress
         /\ provider.pd.vaultToken = IF TokenMethod THEN ResolvedToken ELSE ClientToken
    /\ provider.logins # << >> <=> (ResolvedAddress # Str0 /\ AppRoleMethod)
    /\ provider.logins # << >> =>
         /\ Len(provider.logins) = 1
         /\ provider.logins[1].role_id = ResolvedRoleID
         /\ provider.logins[1].secret_id = ResolvedSecretID
         /\ provider.logins[1].token = Str0

(* C25 witness: role id and secret id come from the provider block, the   *)
(* address from the environment; the login succeeded and the provider     *)
(* data holds the token it returned.                                      *)
C25_Witness ==
  /\ ConfigureHasRun /\ AppRoleMethod /\ provider.reply = "ok"
  /\ provCfg.VaultAddress = ANull /\ ResolvedAddress = EnvAddr
  /\ provCfg.VaultRoleID = AKnown(RoleID)
  /\ provider.pd.set /\ provider.pd.vaultToken = ClientToken
  /\ Len(provider.logins) = 1

(* ----------------------- credentials and environment ------------------- *)
(* The address and the token handed to NewVaultClient for call c. *)
GivenAddress(c) ==
  IF arg[c].caller = "core" THEN CoreAddress ELSE ProviderData.vaultAddress
GivenToken(c) ==
  IF arg[c].caller = "core" THEN CoreToken ELSE ProviderData.vaultToken
GivenTransitPath(c) ==
  IF arg[c].caller = "core" THEN CoreTransitPath ELSE ProviderData.vaultTransitEngine

(* C26: every key-wrap request goes to the address and carries the token   *)
(* that were handed to NewVaultClient, goes to the path                    *)
(* <transitPath>/encrypt/<keyName>, and carries nothing taken from the     *)
(* environment (no namespace): it is the same whatever the environment is. *)
C26_RequestFromParametersOnly ==
  \A i \in 1..Len(requests) :
    \E c \in {requests[i].call} :
      /\ requests[i].req.address = GivenAddress(c)
      /\ requests[i].req.token = GivenToken(c)
      /\ requests[i].req.path = GivenTransitPath(c) \o <<"/encrypt/">> \o arg[c].keyName
      /\ requests[i].req.namespace = Str0

(* ------------------------- the plaintext data key ---------------------- *)
(* The data key of call c as text, and the places of a text where it      *)
(* stands on its own, not inside the token of the transit endpoint.       *)
KeyText(c) == Base64(dataKey[c])
ClearAt(v, c) ==
  {i \in 1..Len(v) : /\ i + Len(KeyText(c)) - 1 <= Len(v)
                     /\ SubSeq(v, i, i + Len(KeyText(c)) - 1) = KeyText(c)
                     /\ ~(i > 1 /\ v[i - 1] = "vault:v1:")}
(* A text (a sequence of tokens) shows the key of call c in the clear. *)
ShowsKey(out, c) == \E i \in 1..Len(out) : out[i].t # "enc" /\ ClearAt(out[i].v, c) # {}
(* The tokens of a text that hold the wrapped key of call c. *)
WrappedIn(out, c) ==
  {i \in 1..Len(out) : out[i].t = "str" /\ out[i].v = VaultCiphertext(KeyText(c))}

(* The error values an encryption call can return. *)
CallErrors ==
  {NoErr, ParseError, TreeError, Err("unexpected vault response: ciphertext not a string", "")}
  \cup {Err("vault transit encrypt", cause) : cause \in {"connection refused", "403 permission denied"}}
Diagnostics == {"", "Invalid scope configuration", "SOPS encryption failed", "unexpected update"}

(* C27: the data key of a call is the plaintext of one request, the wrap   *)
(* request of that call, and of no other request or login; no artifact or  *)
(* error returned by any call and no Terraform state or diagnostic shows   *)
(* it in the clear; what the artifact of the call keeps of it is the token  *)
(* the transit endpoint returned, once, in the sops entry.                 *)
C27_DataKeyTransient ==
  \A c \in Calls :
    dataKey[c] # 0 =>
      /\ Cardinality({i \in 1..Len(requests) : requests[i].req.plaintext = KeyText(c)}) = 1
      /\ \A i \in 1..Len(requests) :
           /\ requests[i].req.plaintext = KeyText(c) => requests[i].call = c
           /\ ClearAt(requests[i].req.path, c) = {} /\ ClearAt(requests[i].req.token, c) = {}
      /\ \A i \in 1..Len(provider.logins) :
           ClearAt(provider.logins[i].role_id \o provider.logins[i].secret_id, c) = {}
      /\ \A d \in Calls :
           /\ ~ShowsKey(ret[d].out, c)
           /\ ret[d].err \in CallErrors
           /\ d # c => WrappedIn(ret[d].out, c) = {}
      /\ \A r \in Resources :
           /\ ~ShowsKey(ValueString(tfstate[r].Ciphertext), c)
           /\ ClearAt(ValueString(tfstate[r].ID), c) = {}
           /\ diag[r] \in Diagnostics
      /\ Succeeded(c) =>
           /\ Cardinality(WrappedIn(ret[c].out, c)) = 1
           /\ \A i \in WrappedIn(ret[c].out, c) : i > SopsIndex(ret[c].out)

(* C27 witness: a Create has returned its artifact and the artifact is in  *)
(* the state; a later call with a key of its own has failed on its wrap   *)
(* request.                                                               *)
C27_Witness ==
  \E c, d \in Calls :
    /\ c # d /\ Succeeded(c) /\ arg[c].caller = "create"
    /\ tfstate[ResOf(arg[c].api)].Ciphertext = AKnown(ret[c].out)
    /\ dataKey[d] # 0 /\ Failed(d) /\ ret[d].err.msg = "vault transit encrypt"

(* --------------------------- concurrent calls -------------------------- *)
(* What call c returns when it is the only call of the process and gets   *)
(* the reply it got: the entry point run from a fresh entropy source.     *)
AloneEnd(c, b) ==
  IF ~b.sent THEN [panic |-> FALSE, out |-> << >>, err |-> b.err, rnd |-> b.rnd]
  ELSE EncryptToEnd(TheClient(arg[c]), TransitPath(arg[c]), arg[c], OptsOfCall(c), b.key,
                    VaultReply(replied[c], Base64(b.key)), b.rnd,
                    [created |-> 0, modified |-> 0])
Alone(c) ==
  The({AloneEnd(c, b) :
         b \in {encryptDocumentBegin(TheClient(arg[c]), TransitPath(arg[c]), arg[c], 0)}})

EncTokens(out) == {i \in 1..Len(out) : out[i].t = "enc"}
NoncesOf(out) == {EncNonceOf(out[i]) : i \in EncTokens(out)}
HasReturned(c) == pc[c] = "done" /\ ret[c].status = "returned"

(* The calls that return: whatever the interleaving, the data keys of the *)
(* calls differ; a call that returns gives the error, or (up to the random *)
(* values) the artifact, that it gives when it runs alone with the same    *)
(* reply; every encrypted value of its artifact is under its own data key  *)
(* with a nonce no other artifact has, and the artifact holds the wrapped  *)
(* key of no other call.                                                   *)
ReturnedCallsIsolated ==
  \A c \in Calls :
    /\ dataKey[c] # 0 => \A d \in Calls \ {c} : dataKey[d] # dataKey[c]
    /\ HasReturned(c) =>
         /\ \E alone \in {Alone(c)} :
              /\ ~alone.panic
              /\ ret[c].err = alone.err
              /\ MaskOut(ret[c].out) = MaskOut(alone.out)
         /\ \A i \in EncTokens(ret[c].out) : EncKeyOf(ret[c].out[i]) = ToString(dataKey[c])
         /\ \A d \in Calls \ {c} :
              /\ NoncesOf(ret[c].out) \cap NoncesOf(ret[d].out) = {}
              /\ dataKey[d] # 0 => WrappedIn(ret[c].out, d) = {}

(* C28: whatever the interleaving, every call has the outcome it has when *)
(* it runs alone: what holds of the calls that return, and a call ends     *)
(* without returning only on its own reply, when it ends so alone too.     *)
C28_OutcomeAsAlone ==
  /\ ReturnedCallsIsolated
  /\ \A c \in Calls :
       pc[c] = "crashed" => (replied[c] # "none" /\ Alone(c).panic)

(* A call ended by the reply of another call: it had sent its wrap        *)
(* request and got no reply when the other call's reply stopped the        *)
(* provider process.                                                       *)
EndedByAnotherCall ==
  \E c, d \in Calls :
    /\ c # d
    /\ pc[c] = "crashed" /\ replied[c] = "none"
    /\ pc[d] = "crashed" /\ replied[d] # "none"

(* Two calls overlapped: the first generated its key first and encrypted  *)
(* its leaves after the second had encrypted its own; both returned an     *)
(* artifact.                                                               *)
OverlappedCallsReturned ==
  \E c, d \in Calls :
    /\ Succeeded(c) /\ Succeeded(d)
    /\ dataKey[c] < dataKey[d]
    /\ NoncesOf(ret[c].out) # {} /\ NoncesOf(ret[d].out) # {}
    /\ \A n \in NoncesOf(ret[c].out), m \in NoncesOf(ret[d].out) : n # m
    /\ \E i \in EncTokens(ret[c].out), j \in EncTokens(ret[d].out) :
         /\ EncNonceOf(ret[c].out[i]) = ToString(rnd)
         /\ EncNonceOf(ret[d].out[j]) = ToString(dataKey[d] + 1)

(* ------------------------ one data key per call ------------------------ *)
(* vault transit decrypt, as the mock endpoint of the tests defines it:   *)
(* the token without its vault:v1: prefix.                                *)
Unwrap(ct) == IF Len(ct) > 0 /\ ct[1] = "vault:v1:" THEN Tail(ct) ELSE << >>

(* The wrapped keys an artifact records: the vault tokens of its sops entry. *)
RecordedKeys(out) ==
  UNION {{out[i].v : i \in {j \in (s + 1)..Len(out) : /\ out[j].t = "str" /\ Len(out[j].v) > 0
                                                      /\ out[j].v[1] = "vault:v1:"}} :
           s \in {SopsIndex(out)}}

(* The number of values encrypted by the calls of S that returned an artifact. *)
EncCount(c) == IF Succeeded(c) THEN Cardinality(EncTokens(ret[c].out)) ELSE 0
RECURSIVE EncTotal(_)
EncTotal(S) ==
  IF S = {} THEN 0 ELSE The({EncCount(x) + EncTotal(S \ {x}) : x \in {CHOOSE y \in S : TRUE}})

(* C29: a call that generated a data key generated one: the entropy source *)
(* was read once per key and once per encrypted value of the returned       *)
(* artifacts; the key has 32 bytes; the wrap request of the call carries    *)
(* that key base64-encoded; every encrypted value of the call's artifact,   *)
(* the MAC included, is encrypted under that key; and the wrapped key       *)
(* recorded in the artifact unwraps to that key.                            *)
C29_OneKeyWrappedAndUsed ==
  /\ (\A c \in Calls : pc[c] # "wrapping") =>
       rnd = Cardinality({c \in Calls : dataKey[c] # 0}) + EncTotal(Calls)
  /\ \A c \in Calls :
       dataKey[c] # 0 =>
         /\ \A i \in 1..Len(requests) :
              requests[i].call = c =>
                /\ requests[i].req.plaintext = Base64(dataKey[c])
                /\ requests[i].keyLen = 32
         /\ Succeeded(c) =>
              /\ EncTokens(ret[c].out) # {}
              /\ \A i \in EncTokens(ret[c].out) : EncKeyOf(ret[c].out[i]) = ToString(dataKey[c])
              /\ \E ws \in {RecordedKeys(ret[c].out)} :
                   ws # {} /\ \A w \in ws : Unwrap(w) = Base64(dataKey[c])

(* C29 witness: a call has returned an artifact with two encrypted leaves  *)
(* and a plaintext leaf; the key of its wrap request is the key of its     *)
(* encrypted values.                                                       *)
C29_Witness ==
  \E c \in Calls :
    /\ Succeeded(c)
    /\ Cardinality({i \in EncTokens(ret[c].out) : i < SopsIndex(ret[c].out)}) >= 2
    /\ \E i \in 1..SopsIndex(ret[c].out) : ret[c].out[i].t \in {"str", "num", "bool"}
    /\ \E i \in 1..Len(requests) :
         /\ requests[i].call = c
         /\ \A j \in EncTokens(ret[c].out) :
              Base64(dataKey[c]) = <<"b64:", EncKeyOf(ret[c].out[j])>>
              /\ requests[i].req.plaintext = <<"b64:", EncKeyOf(ret[c].out[j])>>

(* --------------------- resources: the state invariant ------------------ *)
(* The state of r holds the output of a successful encryption of the       *)
(* inputs it holds.                                                        *)
EncryptionOfState(r) ==
  {d \in Calls : /\ Succeeded(d) /\ InputsInState(r, d)
                 /\ tfstate[r].Ciphertext = AKnown(ret[d].out)}

(* The state of r was written by ImportState: id alone is set. *)
Imported(r) ==
  \E id \in ImportIds : tfstate[r] = [Absent EXCEPT !.present = TRUE, !.ID = AKnown(id)]

(* C30: whenever a resource is present in state, its ciphertext is set and *)
(* is the output of one successful encryption of the content, key name and *)
(* scope attributes of the same state, and its id is its vault_key_name;   *)
(* also after ImportState followed by Read.                                *)
C30_StateInvariant ==
  \A r \in Resources :
    tfstate[r].present =>
      /\ tfstate[r].Ciphertext.st = "known"
      /\ Cardinality(EncryptionOfState(r)) = 1
      /\ tfstate[r].ID = tfstate[r].VaultKeyName

====
